---- MODULE Spec2Model ----
(***************************************************************************)
(* zgrid: a single-writer grid state engine.                               *)
(*                                                                         *)
(* business.Grid owns the topology (Graph), its partition into islands,    *)
(* the node -> island index and the latest measurement per node.  HTTP     *)
(* handlers (api.graphHandler, api.measurementsHandler) enqueue events on  *)
(* a buffered channel; Grid.Loop dequeues them one at a time and applies   *)
(* Grid.update.                                                            *)
(*                                                                         *)
(* Conventions of the model:                                               *)
(*  - Go slices are sequences, Go maps are functions on their key set.     *)
(*  - Island positions are 1-based here (Go: 0-based), because TLA+        *)
(*    sequences are 1-based; nodeToIsland[n] = i means islands[i].         *)
(*  - float64 measurement values are modelled by small integers, so the    *)
(*    sum of a set of values does not depend on the map iteration order.   *)
(***************************************************************************)
EXTENDS Integers, Sequences, FiniteSets, TLC

\* ------------------------------------------------------------------------
\* Bounds of the model

\* Longest node list / edge list of a topology drawn in SpecPure.
MaxNodes == 3
MaxEdges == 2
\* Longest node list / edge list of a topology drawn in SpecGrid.
GridMaxNodes == 2
GridMaxEdges == 1
\* Capacity of the events channel (cmd/server uses 4096, the tests 16..1024).
QueueCap == 2

\* Capacity of the reply channel a handler makes: make(chan ..., 1).
ReplyCap == 1

\* HTTP status codes the handlers respond with.
StatusOK == 200
StatusRequestTimeout == 408
StatusTooManyRequests == 429
StatusBadRequest == 400
StatusMethodNotAllowed == 405
StatusUnsupportedMediaType == 415
StatusInternalServerError == 500

\* Node identifiers and measurement values the inputs are drawn from.
IDs == {"A", "B", "C"}
Values == {1, 2}

\* The node list of the reference scenario of the exercise, and all the
\* identifiers a node list of the model can hold.
ScenarioNodes == <<"A", "B", "C", "D">>
NodeNames == IDs \cup {ScenarioNodes[i] : i \in 1..4}

\* ------------------------------------------------------------------------
\* Helpers on sequences and maps

Range(s) == {s[i] : i \in DOMAIN s}

SeqsUpTo(S, n) == UNION {[1..k -> S] : k \in 0..n}

EmptyMap == [x \in {} |-> 0]

\* ------------------------------------------------------------------------
\* business.Graph

\* Mutant of addEdge: the edge is recorded in one direction only.
addEdgeDirected(nodeSet, E, edge) ==
    IF Len(edge) # 2 THEN E
    ELSE IF edge[1] \notin nodeSet \/ edge[2] \notin nodeSet THEN E
    ELSE [E EXCEPT ![edge[1]] = Append(@, edge[2])]

\* Mutant of addEdge: the second endpoint of an edge is not looked up in the
\* node set; the append makes its adjacency entry.
addEdgeUncheckedB(nodeSet, E, edge) ==
    IF Len(edge) # 2 THEN E
    ELSE LET a == edge[1]
             b == edge[2]
         IN IF a \notin nodeSet THEN E
            ELSE LET E1 == [E EXCEPT ![a] = Append(@, b)]
                 IN [x \in DOMAIN E1 \cup {b} |->
                        IF x = b
                        THEN Append(IF b \in DOMAIN E1 THEN E1[b] ELSE <<>>, a)
                        ELSE E1[x]]

\* Mutant of addEdge: a neighbour is appended only when the list does not
\* hold it yet.
addEdgeOnce(nodeSet, E, edge) ==
    IF Len(edge) # 2 THEN E
    ELSE LET a == edge[1]
             b == edge[2]
         IN IF a \notin nodeSet THEN E
            ELSE IF b \notin nodeSet THEN E
            ELSE LET E1 == IF \E i \in 1..Len(E[a]) : E[a][i] = b THEN E
                           ELSE [E EXCEPT ![a] = Append(@, b)]
                 IN IF \E i \in 1..Len(E1[b]) : E1[b][i] = a THEN E1
                    ELSE [E1 EXCEPT ![b] = Append(@, a)]

\* One iteration of the "Build adjacency list" loop of NewGraph.
addEdge(nodeSet, E, edge) ==
    IF Len(edge) # 2 THEN E
    ELSE LET a == edge[1]
             b == edge[2]
         IN IF a \notin nodeSet THEN E
            ELSE IF b \notin nodeSet THEN E
            ELSE LET E1 == [E EXCEPT ![a] = Append(@, b)]
                 IN [E1 EXCEPT ![b] = Append(@, a)]

RECURSIVE addEdges(_, _, _, _)
addEdges(nodeSet, E, edges, i) ==
    IF i > Len(edges) THEN E
    ELSE addEdges(nodeSet, addEdge(nodeSet, E, edges[i]), edges, i + 1)

NewGraph(nodes, edges) ==
    LET nodeSet == Range(nodes)
        E0 == [n \in nodeSet |-> <<>>]
    IN [Nodes |-> nodes, Edges |-> addEdges(nodeSet, E0, edges, 1)]

\* Mutant of HasNode: a node counts as present only when it has a neighbour.
HasNodeWithNeighbour(g, node) == node \in DOMAIN g.Edges /\ g.Edges[node] # <<>>

HasNode(g, node) == node \in DOMAIN g.Edges

\* g.Edges[v]: a Go map lookup of a missing key yields the nil slice.
Adj(g, v) == IF v \in DOMAIN g.Edges THEN g.Edges[v] ELSE <<>>

\* ------------------------------------------------------------------------
\* business.Grid

\* Mutant of NewGrid: the island list is made with one island, without nodes.
NewGridOneIsland ==
    [graph        |-> [Nodes |-> <<>>, Edges |-> [x \in {} |-> 0]],
     islands      |-> <<(<<>>)>>,
     nodeToIsland |-> [x \in {} |-> 0],
     measurements |-> [x \in {} |-> 0]]

\* A Grid is a record of its four fields. NewGrid: the empty grid state.
NewGrid ==
    [graph        |-> [Nodes |-> <<>>, Edges |-> EmptyMap],
     islands      |-> <<>>,
     nodeToIsland |-> EmptyMap,
     measurements |-> EmptyMap]

\* ------------------------------------------------------------------------
\* business.computeIslands

\* Mutant of popVisited: a popped node is never skipped.
popVisitedNever(visited, v) == FALSE

\* "if visited[v] { continue }" on the node popped from the stack.
popVisited(visited, v) == v \in visited

\* Mutant of dfs: the loop takes the oldest element of the stack, not the
\* newest.
dfsOldestFirst(g, stack, visited, island) ==
    LET loop[st \in Seq(NodeNames) \X (SUBSET NodeNames) \X Seq(NodeNames)] ==
            IF st[1] = <<>> THEN [visited |-> st[2], island |-> st[3]]
            ELSE LET v == st[1][1]
                     rest == SubSeq(st[1], 2, Len(st[1]))
                 IN IF popVisited(st[2], v) THEN loop[<<rest, st[2], st[3]>>]
                    ELSE LET vis2 == st[2] \cup {v}
                             push == SelectSeq(Adj(g, v), LAMBDA nei : nei \notin vis2)
                         IN loop[<<rest \o push, vis2, Append(st[3], v)>>]
    IN loop[<<stack, visited, island>>]

\* The inner "for len(stack) > 0" loop: pops the last element of the stack.
\* The loop is a recursive function of the loop state <<stack, visited,
\* island>>, so that each iteration works on values.
dfs(g, stack, visited, island) ==
    LET loop[st \in Seq(NodeNames) \X (SUBSET NodeNames) \X Seq(NodeNames)] ==
            IF st[1] = <<>> THEN [visited |-> st[2], island |-> st[3]]
            ELSE LET v == st[1][Len(st[1])]
                     rest == SubSeq(st[1], 1, Len(st[1]) - 1)
                 IN IF popVisited(st[2], v) THEN loop[<<rest, st[2], st[3]>>]
                    ELSE LET vis2 == st[2] \cup {v}
                             push == SelectSeq(Adj(g, v), LAMBDA nei : nei \notin vis2)
                         IN loop[<<rest \o push, vis2, Append(st[3], v)>>]
    IN loop[<<stack, visited, island>>]

\* Mutant of islandIdx: the nodes of an island after the first get the index of the one before.
islandIdxFirst(isl) == IF isl = <<>> THEN 1 ELSE Len(isl)

\* The island index given to the nodes of a new island (Go: len(islands)).
islandIdx(isl) == Len(isl) + 1

\* One iteration of the outer "for _, n := range g.Nodes" loop on the loop
\* state st = <<visited, islands, nodeToIsland>>: add takes the result of the
\* inner loop, appends the island and indexes its nodes.
islandStep(g, n, st) ==
    LET add[r \in [visited : SUBSET NodeNames, island : Seq(NodeNames)]] ==
            LET idx == islandIdx(st[2])
                mem == Range(r.island)
            IN <<r.visited,
                 Append(st[2], r.island),
                 [x \in DOMAIN st[3] \cup mem |-> IF x \in mem THEN idx ELSE st[3][x]]>>
    IN IF n \in st[1] THEN st
       ELSE add[dfs(g, <<n>>, st[1], <<>>)]

\* The outer "for _, n := range g.Nodes" loop, from position i on.
islandsFrom(g, i, visited, isl, n2i) ==
    LET maps == UNION {[D -> 1..Len(g.Nodes)] : D \in SUBSET NodeNames}
        loop[k \in Nat, st \in (SUBSET NodeNames) \X Seq(Seq(NodeNames)) \X maps] ==
            IF k > Len(g.Nodes) THEN [islands |-> st[2], nodeToIsland |-> st[3]]
            ELSE loop[k + 1, islandStep(g, g.Nodes[k], st)]
    IN loop[i, <<visited, isl, n2i>>]

\* Mutant of computeIslands: the outer loop ranges over the nodes from the
\* last to the first.
computeIslandsBackwards(g) ==
    islandsFrom([g EXCEPT !.Nodes = [k \in 1..Len(@) |-> @[Len(@) + 1 - k]]],
                1, {}, <<>>, EmptyMap)

computeIslands(g) == islandsFrom(g, 1, {}, <<>>, EmptyMap)

\* ------------------------------------------------------------------------
\* business.aggregate and Grid.update

\* Mutant of islandOf: a node without an island counts for the first island.
islandOfDefault(s, node) ==
    IF node \in DOMAIN s.nodeToIsland THEN [idx |-> s.nodeToIsland[node], ok |-> TRUE]
    ELSE [idx |-> 1, ok |-> Len(s.islands) > 0]

\* "idx, ok := s.nodeToIsland[node]".
islandOf(s, node) ==
    IF node \in DOMAIN s.nodeToIsland THEN [idx |-> s.nodeToIsland[node], ok |-> TRUE]
    ELSE [idx |-> 0, ok |-> FALSE]

\* The "for node, val := range s.measurements" loop of aggregate. The order
\* in which Go ranges over the map is unspecified; the sum of integers does
\* not depend on it.
RECURSIVE addTotals(_, _, _)
addTotals(s, totals, todo) ==
    IF todo = {} THEN totals
    ELSE LET node == CHOOSE x \in todo : TRUE
             val == s.measurements[node]
             r == islandOf(s, node)
             t2 == IF r.ok THEN [totals EXCEPT ![r.idx] = @ + val] ELSE totals
         IN addTotals(s, t2, todo \ {node})

\* Mutant of aggregate: components without a total are left out of the reply.
aggregateNonZero(s) ==
    LET zero == [i \in 1..Len(s.islands) |-> 0]
        totals == addTotals(s, zero, DOMAIN s.measurements)
    IN SelectSeq([i \in 1..Len(s.islands) |->
                     [Island |-> s.islands[i], Total |-> totals[i]]],
                 LAMBDA t : t.Total # 0)

aggregate(s) ==
    LET zero == [i \in 1..Len(s.islands) |-> 0]
        totals == addTotals(s, zero, DOMAIN s.measurements)
    IN [i \in 1..Len(s.islands) |->
           [Island |-> s.islands[i], Total |-> totals[i]]]

\* Events (business/events.go). Reply names the reply channel, Nil for none.
Nil == "nil"

\* Mutant of GraphUpdate: every topology event carries the same reply channel
\* instead of one made for its request.
GraphUpdateSharedReply(g, ch) == [type |-> "GraphUpdate", Reply |-> "g1", Graph |-> g]

GraphUpdate(g, ch) == [type |-> "GraphUpdate", Reply |-> ch, Graph |-> g]

MeasurementUpdate(node, value, ch) ==
    [type |-> "MeasurementUpdate", Reply |-> ch, Node |-> node, Value |-> value]

\* Mutant of storeValue: the value is added to the one the node has.
storeValueAdd(m, node, value) ==
    [x \in DOMAIN m \cup {node} |->
        IF x = node THEN (IF node \in DOMAIN m THEN m[node] ELSE 0) + value ELSE m[x]]

\* The measurement store after "s.measurements[e.Node] = e.Value".
storeValue(m, node, value) ==
    [x \in DOMAIN m \cup {node} |-> IF x = node THEN value ELSE m[x]]

\* Mutant of updateGraph: measurements of nodes the new graph does not
\* declare are pruned.
updateGraphPrune(s, e) ==
    LET r == computeIslands(e.Graph)
    IN [s EXCEPT !.graph = e.Graph,
                 !.islands = r.islands,
                 !.nodeToIsland = r.nodeToIsland,
                 !.measurements = [x \in DOMAIN @ \cap DOMAIN e.Graph.Edges |-> @[x]]]

\* Mutant of updateGraph: the island list is not replaced with the index.
updateGraphStaleIslands(s, e) ==
    LET r == computeIslands(e.Graph)
    IN [s EXCEPT !.graph = e.Graph,
                 !.nodeToIsland = r.nodeToIsland]

\* Mutant of updateGraph: the islands are computed with the nodes that have a
\* stored measurement visited first.
updateGraphMeasuredFirst(s, e) ==
    LET measured == SelectSeq(e.Graph.Nodes, LAMBDA n : n \in DOMAIN s.measurements)
        others == SelectSeq(e.Graph.Nodes, LAMBDA n : n \notin DOMAIN s.measurements)
        r == computeIslands([Nodes |-> measured \o others, Edges |-> e.Graph.Edges])
    IN [s EXCEPT !.graph = e.Graph,
                 !.islands = r.islands,
                 !.nodeToIsland = r.nodeToIsland]

\* The GraphUpdate case of Grid.update: the new state.
updateGraph(s, e) ==
    LET r == computeIslands(e.Graph)
    IN [s EXCEPT !.graph = e.Graph,
                 !.islands = r.islands,
                 !.nodeToIsland = r.nodeToIsland]

\* Mutant of updateMeasurement: the value is stored for any node.
updateMeasurementAlways(s, e) ==
    [s EXCEPT !.measurements = storeValue(@, e.Node, e.Value)]

\* Mutant of updateMeasurement: storing a value drops the values of the other
\* nodes.
updateMeasurementOnly(s, e) ==
    IF HasNode(s.graph, e.Node)
    THEN [s EXCEPT !.measurements = storeValue(EmptyMap, e.Node, e.Value)]
    ELSE s

\* Mutant of updateMeasurement: a value is stored only for a node that has
\* none yet.
updateMeasurementKeepFirst(s, e) ==
    IF HasNode(s.graph, e.Node) /\ e.Node \notin DOMAIN s.measurements
    THEN [s EXCEPT !.measurements = storeValue(@, e.Node, e.Value)]
    ELSE s

\* The MeasurementUpdate case of Grid.update: the new state.
updateMeasurement(s, e) ==
    IF HasNode(s.graph, e.Node)
    THEN [s EXCEPT !.measurements = storeValue(@, e.Node, e.Value)]
    ELSE s

\* Mutant of graphReply: the reply is the declared node list as one island.
graphReplyNodes(s) == IF s.graph.Nodes = <<>> THEN <<>> ELSE <<s.graph.Nodes>>

\* "e.Reply <- s.islands".
graphReply(s) == s.islands

\* Mutant of update: the reply of a measurement is computed before the value
\* is stored.
updateReplyBefore(s, e) ==
    IF e.type = "GraphUpdate"
    THEN LET s2 == updateGraph(s, e)
         IN [grid |-> s2, reply |-> graphReply(s2)]
    ELSE LET s2 == updateMeasurement(s, e)
         IN [grid |-> s2, reply |-> aggregate(s)]

\* Grid.update: the new state and the value sent on e.Reply (when not nil).
update(s, e) ==
    IF e.type = "GraphUpdate"
    THEN LET s2 == updateGraph(s, e)
         IN [grid |-> s2, reply |-> graphReply(s2)]
    ELSE LET s2 == updateMeasurement(s, e)
         IN [grid |-> s2, reply |-> aggregate(s2)]

\* ------------------------------------------------------------------------
\* State

VARIABLES
    graph,          \* Grid.graph
    islands,        \* Grid.islands
    nodeToIsland,   \* Grid.nodeToIsland
    measurements,   \* Grid.measurements
    nodesIn,        \* SpecPure: the node list given to NewGraph
    edgesIn,        \* SpecPure: the edge list given to NewGraph
    phase,          \* SpecPure: "input", "built", "done"
    rawEdges,       \* SpecDecode: the JSON texts of the edges of a payload
    lastEvt,        \* SpecGrid: the event of the last direct call of update
    out,            \* SpecGrid: the value read from its reply channel
    stale,          \* SpecGrid: nodes with a stored value that some topology
                    \* applied after the value was stored did not declare
    prev,           \* SpecGrid: the value the store held for the node of the
                    \* last measurement before the call, 0 for none
    hist,           \* SpecScenario: the calls of update and their replies
    accepted,       \* SpecGrid: per node, the value of the last measurement
                    \* for it processed while the node list declared it
    events,         \* the events channel: its buffer, oldest first
    loopPc,         \* Grid.Loop: "running" or "returned"
    loopCtxDone,    \* the context of Grid.Loop is cancelled
    closed,         \* the events channel is closed
    queuedAtClose,  \* history: the requests whose event the channel held when
                    \* it was closed, oldest first
    pc,             \* per request: "idle", "send", "recv", "done"
    evt,            \* per request: the updateEvent the handler built
    resp,           \* per request: the buffer of its reply channel
    status,         \* per request: the status code responded, 0 before
    body,           \* per request: the body of a StatusOK response
    ctxDone,        \* per request: r.Context() is done
    req,            \* per request: the HTTP request as the guards see it
    enqLog,         \* history: requests in the order their event was enqueued
    appLog,         \* history: requests in the order their event was applied
    mw,             \* SpecWrap: the middlewares given to WrapMiddleware
    wrapI,          \* SpecWrap: the index i of the loop of WrapMiddleware
    handler,        \* SpecWrap: the handler, its layers outermost first
    trace,          \* SpecWrap: the layers a request has run, in order
    wrapPc          \* SpecWrap: "loop", "wrapped", "serving", "served",
                    \* "stopped"

engineVars == <<graph, islands, nodeToIsland, measurements>>
wrapVars == <<mw, wrapI, handler, trace, wrapPc>>
pureVars == <<nodesIn, edgesIn, phase, rawEdges, wrapVars>>
gridVars == <<lastEvt, out, stale, prev, hist, accepted>>
loopVars == <<events, loopPc, loopCtxDone, closed, queuedAtClose, enqLog, appLog>>
handlerVars == <<pc, evt, resp, status, body, ctxDone, req>>
vars == <<engineVars, pureVars, gridVars, loopVars, handlerVars>>

\* The Grid as one value, and its assignment to the primed variables.
Grid ==
    [graph |-> graph, islands |-> islands,
     nodeToIsland |-> nodeToIsland, measurements |-> measurements]

SetGrid(s) ==
    /\ graph' = s.graph
    /\ islands' = s.islands
    /\ nodeToIsland' = s.nodeToIsland
    /\ measurements' = s.measurements

InitGrid ==
    /\ graph = NewGrid.graph
    /\ islands = NewGrid.islands
    /\ nodeToIsland = NewGrid.nodeToIsland
    /\ measurements = NewGrid.measurements

NoEvt == [type |-> "none"]

InitWrapIdle ==
    mw = <<>> /\ wrapI = 0 /\ handler = <<>> /\ trace = <<>> /\ wrapPc = "off"

InitPureIdle == nodesIn = <<>> /\ edgesIn = <<>> /\ phase = "off" /\ rawEdges = <<>>
    /\ InitWrapIdle
InitGridIdle == lastEvt = NoEvt /\ out = <<>> /\ stale = {} /\ prev = 0 /\ hist = <<>>
    /\ accepted = EmptyMap

\* An HTTP request as the middleware and the handlers look at it: its method,
\* the media type of its Content-Type header, whether its context carries the
\* events channel, and whether its body decodes into the payload.
ValidRequest ==
    [Method |-> "POST", ContentType |-> "application/json",
     Events |-> TRUE, Decodes |-> TRUE]

Requests ==
    [Method : {"POST", "GET"}, ContentType : {"application/json", "text/plain"},
     Events : BOOLEAN, Decodes : BOOLEAN]

\* foundation.RequireMethod(http.MethodPost): the request goes on to next.
RequireMethod(r) == r.Method = "POST"

\* foundation.RequireJSONContentType: the request goes on to next.
RequireJSONContentType(r) == r.ContentType = "application/json"

\* api.getStateEvents: the context holds the events channel (not nil).
getStateEvents(r) == r.Events

\* foundation.Decode: err == nil.
Decode(r) == r.Decodes

\* Mutant of rejectStatus: the content type is looked at before the method.
rejectStatusContentTypeFirst(r) ==
    IF ~RequireJSONContentType(r) THEN StatusUnsupportedMediaType
    ELSE IF ~RequireMethod(r) THEN StatusMethodNotAllowed
    ELSE IF ~getStateEvents(r) THEN StatusInternalServerError
    ELSE IF ~Decode(r) THEN StatusBadRequest
    ELSE 0

\* The status of the guard that turns the request down, in the order the
\* route runs the guards: WrapMiddleware(handler, RequireMethod,
\* RequireJSONContentType), then the handler (getStateEvents, Decode). 0 for
\* a request that passes them all.
rejectStatus(r) ==
    IF ~RequireMethod(r) THEN StatusMethodNotAllowed
    ELSE IF ~RequireJSONContentType(r) THEN StatusUnsupportedMediaType
    ELSE IF ~getStateEvents(r) THEN StatusInternalServerError
    ELSE IF ~Decode(r) THEN StatusBadRequest
    ELSE 0

\* The requests of Spec: calls of graphHandler and of measurementsHandler.
GraphProcs == {"g1", "g2"}
MeasProcs == {"m1", "m2"}
Procs == GraphProcs \cup MeasProcs

\* cmd/server run: the channel is made empty and Grid.Loop is started.
InitLoop ==
    /\ events = <<>>
    /\ loopPc = "running"
    /\ loopCtxDone = FALSE
    /\ closed = FALSE
    /\ queuedAtClose = <<>>
    /\ enqLog = <<>>
    /\ appLog = <<>>

InitHandlers ==
    /\ pc = [p \in Procs |-> "idle"]
    /\ evt = [p \in Procs |-> NoEvt]
    /\ resp = [p \in Procs |-> <<>>]
    /\ status = [p \in Procs |-> 0]
    /\ body = [p \in Procs |-> <<>>]
    /\ ctxDone = [p \in Procs |-> FALSE]
    /\ req = [p \in Procs |-> ValidRequest]

\* ------------------------------------------------------------------------
\* SpecPure: NewGraph and computeIslands applied to one drawn input

\* Edges as they can reach NewGraph: pairs (self-loops included) and edges
\* that do not name exactly two endpoints.
EdgeInputs == (IDs \X IDs) \cup {<<"A">>, <<"A", "B", "C">>}

InitPure ==
    /\ InitGrid
    /\ InitGridIdle
    /\ InitLoop
    /\ InitHandlers
    /\ nodesIn \in SeqsUpTo(IDs, MaxNodes)
    /\ edgesIn \in SeqsUpTo(EdgeInputs, MaxEdges)
    /\ phase = "input"
    /\ rawEdges = <<>>
    /\ InitWrapIdle

PureNewGraph ==
    /\ phase = "input"
    /\ graph' = NewGraph(nodesIn, edgesIn)
    /\ phase' = "built"
    /\ UNCHANGED <<islands, nodeToIsland, measurements, nodesIn, edgesIn, rawEdges, gridVars>>
    /\ UNCHANGED wrapVars
    /\ UNCHANGED <<loopVars, handlerVars>>

PureComputeIslands ==
    /\ phase = "built"
    /\ LET r == computeIslands(graph)
       IN /\ islands' = r.islands
          /\ nodeToIsland' = r.nodeToIsland
    /\ phase' = "done"
    /\ UNCHANGED <<graph, measurements, nodesIn, edgesIn, rawEdges, gridVars>>
    /\ UNCHANGED wrapVars
    /\ UNCHANGED <<loopVars, handlerVars>>

NextPure == PureNewGraph \/ PureComputeIslands

SpecPure == InitPure /\ [][NextPure]_vars

\* ------------------------------------------------------------------------
\* SpecDecode: the edges of a /graph payload are decoded by
\* Edge.UnmarshalJSON, each from its JSON text, and passed to NewGraph. A
\* JSON text is the sequence of its characters.

\* The most edges of a payload.
MaxRawEdges == 2

\* The identifiers of the payloads; one of them contains a comma.
DecodeIDs == {"A", "B", "A,B"}

\* The characters of an identifier (Go: the bytes of the string).
bytesOf(id) == IF id = "A,B" THEN <<"A", ",", "B">> ELSE <<id>>

\* json.Marshal of a []string: the quoted elements, separated by commas, in
\* brackets.
RECURSIVE jsonElements(_, _)
jsonElements(ids, i) ==
    IF i > Len(ids) THEN <<>>
    ELSE (IF i > 1 THEN <<",">> ELSE <<>>)
             \o <<"\"">> \o bytesOf(ids[i]) \o <<"\"">>
             \o jsonElements(ids, i + 1)

jsonMarshal(ids) == <<"[">> \o jsonElements(ids, 1) \o <<"]">>

\* json.Unmarshal of the text of an array of strings into a []string: the
\* characters between an opening and a closing quote are one element.
RECURSIVE jsonScan(_, _, _, _, _)
jsonScan(data, i, inString, cur, acc) ==
    IF i > Len(data) THEN acc
    ELSE IF data[i] = "\""
         THEN IF inString
              THEN jsonScan(data, i + 1, FALSE, <<>>,
                            Append(acc, CHOOSE id \in DecodeIDs : bytesOf(id) = cur))
              ELSE jsonScan(data, i + 1, TRUE, <<>>, acc)
         ELSE IF inString
              THEN jsonScan(data, i + 1, TRUE, Append(cur, data[i]), acc)
              ELSE jsonScan(data, i + 1, FALSE, cur, acc)

jsonUnmarshal(data) == jsonScan(data, 1, FALSE, <<>>, <<>>)

\* strings.Count(string(data), ",").
stringsCount(data, c) == Cardinality({i \in 1..Len(data) : data[i] = c})

\* Edge.UnmarshalJSON: the error and the edge. The texts of the model are
\* arrays of strings, for which json.Unmarshal returns no error.
UnmarshalJSON(data) ==
    IF stringsCount(data, ",") # 1 THEN [edge |-> <<>>, err |-> TRUE]
    ELSE [edge |-> jsonUnmarshal(data), err |-> FALSE]

\* The texts of the edges a client can send: arrays of no, one, two and three
\* identifiers.
EdgeLists == SeqsUpTo(DecodeIDs, Cardinality(DecodeIDs))

EdgeTexts == {jsonMarshal(ids) : ids \in EdgeLists}

InitDecode ==
    /\ InitGrid
    /\ InitGridIdle
    /\ InitLoop
    /\ InitHandlers
    /\ nodesIn = <<"A", "B">>
    /\ edgesIn = <<>>
    /\ rawEdges \in SeqsUpTo(EdgeTexts, MaxRawEdges)
    /\ phase = "payload"
    /\ InitWrapIdle

\* foundation.Decode of the payload of graphHandler, as far as its edges go:
\* the first error of an edge fails the decoding (400); without error the
\* edges go to NewGraph as decoded.
DecodeEdges ==
    /\ phase = "payload"
    /\ LET dec == [k \in 1..Len(rawEdges) |-> UnmarshalJSON(rawEdges[k])]
       IN IF \E k \in 1..Len(rawEdges) : dec[k].err
          THEN phase' = "rejected" /\ edgesIn' = edgesIn
          ELSE /\ phase' = "input"
               /\ edgesIn' = [k \in 1..Len(rawEdges) |-> dec[k].edge]
    /\ UNCHANGED <<nodesIn, rawEdges, engineVars, gridVars, loopVars, handlerVars>>
    /\ UNCHANGED wrapVars

NextDecode == DecodeEdges \/ PureNewGraph \/ PureComputeIslands

SpecDecode == InitDecode /\ [][NextDecode]_vars

\* ------------------------------------------------------------------------
\* SpecGrid: Grid.update called directly, one event after the other, each
\* with a reply channel of capacity one that is read after the call (as
\* TestGridUpdateHandlesEvents does).

GridEdgeInputs == {<<"A", "B">>, <<"A", "C">>, <<"B", "C">>}

\* Node names of measurements: the identifiers, one never declared and the
\* empty string (the node of the payload {}).
MeasNodes == IDs \cup {"ghost", ""}

InitSeq ==
    /\ InitGrid
    /\ InitPureIdle
    /\ InitGridIdle
    /\ InitLoop
    /\ InitHandlers

\* The value the store holds for the node of a measurement event before the
\* event is applied; 0 when it holds none and for a topology event.
storedBefore(s, e) ==
    IF e.type = "MeasurementUpdate" /\ e.Node \in DOMAIN s.measurements
    THEN s.measurements[e.Node]
    ELSE 0

\* The record of the measurements processed while their node was declared:
\* a measurement event for a node of the node list of the current topology g
\* is recorded, any other event leaves the record as it is.
acceptedAfter(acc, g, e) ==
    IF e.type = "MeasurementUpdate" /\ e.Node \in Range(g.Nodes)
    THEN [x \in DOMAIN acc \cup {e.Node} |-> IF x = e.Node THEN e.Value ELSE acc[x]]
    ELSE acc

\* Nodes that keep a stored value while the new topology does not declare them.
staleAfter(s2, st) ==
    (st \cap DOMAIN s2.measurements)
        \cup {x \in DOMAIN s2.measurements : x \notin Range(s2.graph.Nodes)}

GridCall(e) ==
    LET r == update(Grid, e)
    IN /\ SetGrid(r.grid)
       /\ lastEvt' = e
       /\ out' = r.reply
       /\ stale' = IF e.type = "GraphUpdate" THEN staleAfter(r.grid, stale)
                   ELSE stale \ (IF HasNode(graph, e.Node) THEN {e.Node} ELSE {})
       /\ prev' = storedBefore(Grid, e)
       /\ hist' = hist
       /\ accepted' = acceptedAfter(accepted, graph, e)
       /\ UNCHANGED <<pureVars, loopVars, handlerVars>>

\* The topologies submitted: node lists without repetition (SpecPure
\* covers repeated identifiers), edges among the identifiers.
GridNodeLists ==
    {n \in SeqsUpTo(IDs, GridMaxNodes) : Cardinality(Range(n)) = Len(n)}

GridGraphs ==
    {NewGraph(n, e) : n \in GridNodeLists, e \in SeqsUpTo(GridEdgeInputs, GridMaxEdges)}

GridGraphUpdate ==
    \E g \in GridGraphs : GridCall(GraphUpdate(g, "reply"))

GridMeasurementUpdate ==
    \E node \in MeasNodes, value \in Values :
        GridCall(MeasurementUpdate(node, value, "reply"))

NextGrid == GridGraphUpdate \/ GridMeasurementUpdate

SpecGrid == InitSeq /\ [][NextGrid]_vars

\* ------------------------------------------------------------------------
\* SpecScenario: Grid.update called directly with the requests of the
\* reference scenario (TestTopologyChangeRetainsMeasurements), in any order
\* and any number of times, from the empty grid. Values are in tenths: 5.3
\* is 53.

\* The most calls of one run.
MaxCalls == 5

ScenarioGraph1 == NewGraph(ScenarioNodes, <<<<"A", "B">>, <<"C", "D">>>>)
ScenarioGraph2 == NewGraph(ScenarioNodes, <<<<"A", "C">>, <<"B", "D">>>>)

ScenarioCalls ==
    <<GraphUpdate(ScenarioGraph1, "reply"),
      MeasurementUpdate("A", 53, "reply"),
      MeasurementUpdate("B", 101, "reply"),
      GraphUpdate(ScenarioGraph2, "reply"),
      MeasurementUpdate("C", 11, "reply")>>

ScenarioCall(e) ==
    /\ Len(hist) < MaxCalls
    /\ LET r == update(Grid, e)
       IN /\ SetGrid(r.grid)
          /\ lastEvt' = e
          /\ out' = r.reply
          /\ hist' = Append(hist, [reply |-> r.reply, call |-> e])
    /\ UNCHANGED <<stale, prev, accepted>>
    /\ UNCHANGED <<pureVars, loopVars, handlerVars>>

ScenarioGraphUpdate ==
    \E e \in Range(ScenarioCalls) : e.type = "GraphUpdate" /\ ScenarioCall(e)

ScenarioMeasurementUpdate ==
    \E e \in Range(ScenarioCalls) : e.type = "MeasurementUpdate" /\ ScenarioCall(e)

NextScenario == ScenarioGraphUpdate \/ ScenarioMeasurementUpdate

SpecScenario == InitSeq /\ [][NextScenario]_vars

\* ------------------------------------------------------------------------
\* Spec: the server. Handlers enqueue events on the shared channel and wait
\* for the reply; Grid.Loop applies the events one at a time.

\* The payloads of the /graph and /measurements requests: each request has
\* its own, so that the replies tell the requests apart.
GraphPayloads(p) ==
    IF p = "g1" THEN {<<<<"A", "B", "C">>, <<<<"A", "B">>>>>>}
    ELSE {<<<<"A", "B", "C">>, <<<<"B", "C">>>>>>}

MeasPayloads(p) == IF p = "m1" THEN {<<"A", 1>>} ELSE {<<"C", 2>>}

Init ==
    /\ InitGrid
    /\ InitPureIdle
    /\ InitGridIdle
    /\ InitLoop
    /\ InitHandlers

\* Mutant of chanFront: the newest buffered element is received.
chanFrontNewest(q) == q[Len(q)]

\* "e, ok := <-evts": a receive takes the oldest element of the buffer.
chanFront(q) == Head(q)

\* Mutant of chanHasRoom: the last slot of the buffer is never used.
chanHasRoomOffByOne(q, cap) == Len(q) < cap - 1

\* A send on a buffered channel can proceed while the buffer is not full.
chanHasRoom(q, cap) == Len(q) < cap

\* foundation.Respond, followed by the return of the handler.
Respond(p, code, b) ==
    /\ status' = [status EXCEPT ![p] = code]
    /\ body' = [body EXCEPT ![p] = b]
    /\ pc' = [pc EXCEPT ![p] = "done"]

\* graphHandler up to its select: decode the payload, build the graph, make
\* the reply channel and the event.
graphHandler(p) ==
    /\ p \in GraphProcs
    /\ pc[p] = "idle"
    /\ rejectStatus(req[p]) = 0
    /\ ~closed
    /\ \E pl \in GraphPayloads(p) :
          evt' = [evt EXCEPT ![p] = GraphUpdate(NewGraph(pl[1], pl[2]), p)]
    /\ pc' = [pc EXCEPT ![p] = "send"]
    /\ UNCHANGED <<resp, status, body, ctxDone, req>>
    /\ UNCHANGED <<engineVars, pureVars, gridVars, loopVars>>

\* measurementsHandler up to its select.
measurementsHandler(p) ==
    /\ p \in MeasProcs
    /\ pc[p] = "idle"
    /\ rejectStatus(req[p]) = 0
    /\ ~closed
    /\ \E pl \in MeasPayloads(p) :
          evt' = [evt EXCEPT ![p] = MeasurementUpdate(pl[1], pl[2], p)]
    /\ pc' = [pc EXCEPT ![p] = "send"]
    /\ UNCHANGED <<resp, status, body, ctxDone, req>>
    /\ UNCHANGED <<engineVars, pureVars, gridVars, loopVars>>

\* A request to either route that one of the guards turns down: the guard
\* responds with its status and the handler chain returns.
Rejected(p) ==
    /\ pc[p] = "idle"
    /\ \E r \in Requests :
          /\ rejectStatus(r) # 0
          /\ req' = [req EXCEPT ![p] = r]
          /\ Respond(p, rejectStatus(r), <<>>)
    /\ UNCHANGED <<evt, resp, ctxDone>>
    /\ UNCHANGED <<engineVars, pureVars, gridVars, loopVars>>

\* Mutant of SendEvent: the event is sent without its reply channel.
SendEventNoReply(p) ==
    /\ pc[p] = "send"
    /\ chanHasRoom(events, QueueCap)
    /\ events' = Append(events, [evt[p] EXCEPT !.Reply = Nil])
    /\ enqLog' = Append(enqLog, p)
    /\ pc' = [pc EXCEPT ![p] = "recv"]
    /\ UNCHANGED <<evt, resp, status, body, ctxDone, req>>
    /\ UNCHANGED <<engineVars, pureVars, gridVars, loopPc, loopCtxDone, closed, queuedAtClose, appLog>>

\* Mutant of SendCtxDone: the handler that gives up waiting for a slot leaves
\* its event in the channel all the same.
SendCtxDoneEnqueued(p) ==
    /\ pc[p] = "send"
    /\ ctxDone[p]
    /\ IF chanHasRoom(events, QueueCap)
       THEN /\ events' = Append(events, evt[p])
            /\ enqLog' = Append(enqLog, p)
       ELSE UNCHANGED <<events, enqLog>>
    /\ Respond(p, StatusRequestTimeout, <<>>)
    /\ UNCHANGED <<evt, resp, ctxDone, req>>
    /\ UNCHANGED <<engineVars, pureVars, gridVars, loopPc, loopCtxDone, closed, queuedAtClose, appLog>>

\* "case events <- updateEvent" of either handler.
SendEvent(p) ==
    /\ pc[p] = "send"
    /\ ~closed
    /\ chanHasRoom(events, QueueCap)
    /\ events' = Append(events, evt[p])
    /\ enqLog' = Append(enqLog, p)
    /\ pc' = [pc EXCEPT ![p] = "recv"]
    /\ UNCHANGED <<evt, resp, status, body, ctxDone, req>>
    /\ UNCHANGED <<engineVars, pureVars, gridVars, loopPc, loopCtxDone, closed, queuedAtClose, appLog>>

\* Mutant of BackpressureTimeout: the timeout is reported as a request timeout.
BackpressureTimeoutAs408(p) ==
    /\ p \in MeasProcs
    /\ pc[p] = "send"
    /\ ~chanHasRoom(events, QueueCap)
    /\ Respond(p, StatusRequestTimeout, <<>>)
    /\ UNCHANGED <<evt, resp, ctxDone, req>>
    /\ UNCHANGED <<engineVars, pureVars, gridVars, loopVars>>

\* "case <-time.After(backpressureTimeout)" of measurementsHandler. The timer
\* starts when the select is entered, and a select entered while the channel
\* has room sends at once; a blocked sender is served as soon as a receive
\* frees a slot. So the timer fires on a handler that found the channel full
\* for the whole of the wait, and the channel is full when it fires.
BackpressureTimeout(p) ==
    /\ p \in MeasProcs
    /\ pc[p] = "send"
    /\ ~chanHasRoom(events, QueueCap)
    /\ Respond(p, StatusTooManyRequests, <<>>)
    /\ UNCHANGED <<evt, resp, ctxDone, req>>
    /\ UNCHANGED <<engineVars, pureVars, gridVars, loopVars>>

\* Mutant of SendCtxDone: the cancellation is reported as an overload.
SendCtxDoneAs429(p) ==
    /\ pc[p] = "send"
    /\ ctxDone[p]
    /\ Respond(p, StatusTooManyRequests, <<>>)
    /\ UNCHANGED <<evt, resp, ctxDone, req>>
    /\ UNCHANGED <<engineVars, pureVars, gridVars, loopVars>>

\* The outer "case <-ctx.Done()" of either handler.
SendCtxDone(p) ==
    /\ pc[p] = "send"
    /\ ctxDone[p]
    /\ Respond(p, StatusRequestTimeout, <<>>)
    /\ UNCHANGED <<evt, resp, ctxDone, req>>
    /\ UNCHANGED <<engineVars, pureVars, gridVars, loopVars>>

\* "case islands := <-resp" / "case totals := <-resp".
RecvReply(p) ==
    /\ pc[p] = "recv"
    /\ resp[p] # <<>>
    /\ Respond(p, StatusOK, Head(resp[p]))
    /\ resp' = [resp EXCEPT ![p] = Tail(@)]
    /\ UNCHANGED <<evt, ctxDone, req>>
    /\ UNCHANGED <<engineVars, pureVars, gridVars, loopVars>>

\* Mutant of RecvCtxDone: the inner select has no ctx.Done case, the handler
\* leaves it only with a reply.
RecvCtxDoneMissing(p) ==
    /\ pc[p] = "recv"
    /\ ctxDone[p]
    /\ resp[p] # <<>>
    /\ Respond(p, StatusOK, Head(resp[p]))
    /\ resp' = [resp EXCEPT ![p] = Tail(@)]
    /\ UNCHANGED <<evt, ctxDone, req>>
    /\ UNCHANGED <<engineVars, pureVars, gridVars, loopVars>>

\* The inner "case <-ctx.Done()" of either handler.
RecvCtxDone(p) ==
    /\ pc[p] = "recv"
    /\ ctxDone[p]
    /\ Respond(p, StatusRequestTimeout, <<>>)
    /\ UNCHANGED <<evt, resp, ctxDone, req>>
    /\ UNCHANGED <<engineVars, pureVars, gridVars, loopVars>>

\* The caller of a request in progress disconnects or its deadline passes.
CancelRequest(p) ==
    /\ pc[p] \in {"send", "recv"}
    /\ ~ctxDone[p]
    /\ ctxDone' = [ctxDone EXCEPT ![p] = TRUE]
    /\ UNCHANGED <<pc, evt, resp, status, body, req>>
    /\ UNCHANGED <<engineVars, pureVars, gridVars, loopVars>>

\* Mutant of LoopRecv: an event whose caller has given up is dequeued but not
\* applied.
LoopRecvSkipAbandoned ==
    /\ loopPc = "running"
    /\ events # <<>>
    /\ \E e \in {chanFront(events)} :
       \E r \in {IF ctxDone[e.Reply] THEN [grid |-> Grid, reply |-> <<>>]
                 ELSE update(Grid, e)} :
          /\ SetGrid(r.grid)
          /\ IF e.Reply = Nil THEN UNCHANGED resp
             ELSE /\ chanHasRoom(resp[e.Reply], ReplyCap)
                  /\ resp' = [resp EXCEPT ![e.Reply] = Append(@, r.reply)]
          /\ appLog' = Append(appLog, e.Reply)
    /\ events' = Tail(events)
    /\ UNCHANGED <<loopPc, loopCtxDone, closed, queuedAtClose, enqLog>>
    /\ UNCHANGED <<pc, evt, status, body, ctxDone, req>>
    /\ UNCHANGED <<pureVars, gridVars>>

\* Grid.Loop, "case e, ok := <-evts": receive the oldest event and apply
\* update to it, the send of the reply included. update blocks in that send
\* while the reply channel is full; the step is then not taken.
LoopRecv ==
    /\ loopPc = "running"
    /\ events # <<>>
    /\ \E e \in {chanFront(events)} : \E r \in {update(Grid, e)} :
          /\ SetGrid(r.grid)
          /\ IF e.Reply = Nil THEN UNCHANGED resp
             ELSE /\ chanHasRoom(resp[e.Reply], ReplyCap)
                  /\ resp' = [resp EXCEPT ![e.Reply] = Append(@, r.reply)]
          /\ appLog' = Append(appLog, e.Reply)
    /\ events' = Tail(events)
    /\ UNCHANGED <<loopPc, loopCtxDone, closed, queuedAtClose, enqLog>>
    /\ UNCHANGED <<pc, evt, status, body, ctxDone, req>>
    /\ UNCHANGED <<pureVars, gridVars>>

\* Mutant of LoopCtxDone: the loop discards the queued events when it returns.
LoopCtxDoneDrain ==
    /\ loopPc = "running"
    /\ loopCtxDone
    /\ loopPc' = "returned"
    /\ events' = <<>>
    /\ UNCHANGED <<loopCtxDone, closed, queuedAtClose, enqLog, appLog>>
    /\ UNCHANGED <<engineVars, pureVars, gridVars, handlerVars>>

\* Grid.Loop, "case <-ctx.Done(): return".
LoopCtxDone ==
    /\ loopPc = "running"
    /\ loopCtxDone
    /\ loopPc' = "returned"
    /\ UNCHANGED <<events, loopCtxDone, closed, queuedAtClose, enqLog, appLog>>
    /\ UNCHANGED <<engineVars, pureVars, gridVars, handlerVars>>

\* SIGINT: the context given to Grid.Loop is cancelled.
CancelLoop ==
    /\ ~loopCtxDone
    /\ loopCtxDone' = TRUE
    /\ UNCHANGED <<events, loopPc, closed, queuedAtClose, enqLog, appLog>>
    /\ UNCHANGED <<engineVars, pureVars, gridVars, handlerVars>>

\* "close(events)" by the owner of the channel: run on its return, the tests
\* in their cleanup. The owner closes when no request is in progress, and no
\* request starts on a closed channel.
CloseEvents ==
    /\ ~closed
    /\ \A p \in Procs : pc[p] \in {"idle", "done"}
    /\ closed' = TRUE
    /\ queuedAtClose' = [k \in 1..Len(events) |-> events[k].Reply]
    /\ UNCHANGED <<events, loopPc, loopCtxDone, enqLog, appLog>>
    /\ UNCHANGED <<engineVars, pureVars, gridVars, handlerVars>>

\* Mutant of LoopClosed: the loop returns as soon as the channel is closed,
\* whatever its buffer holds.
LoopClosedNoDrain ==
    /\ loopPc = "running"
    /\ closed
    /\ loopPc' = "returned"
    /\ UNCHANGED <<events, loopCtxDone, closed, queuedAtClose, enqLog, appLog>>
    /\ UNCHANGED <<engineVars, pureVars, gridVars, handlerVars>>

\* Mutant of LoopClosed: the loop goes on with its select on a closed channel.
LoopClosedContinue ==
    /\ loopPc = "running"
    /\ closed
    /\ events = <<>>
    /\ loopPc' = "running"
    /\ UNCHANGED <<events, loopCtxDone, closed, queuedAtClose, enqLog, appLog>>
    /\ UNCHANGED <<engineVars, pureVars, gridVars, handlerVars>>

\* Grid.Loop, "case e, ok := <-evts" with !ok: the channel is closed and its
\* buffer is empty.
LoopClosed ==
    /\ loopPc = "running"
    /\ closed
    /\ events = <<>>
    /\ loopPc' = "returned"
    /\ UNCHANGED <<events, loopCtxDone, closed, queuedAtClose, enqLog, appLog>>
    /\ UNCHANGED <<engineVars, pureVars, gridVars, handlerVars>>

Next ==
    \/ \E p \in Procs : graphHandler(p)
    \/ \E p \in Procs : measurementsHandler(p)
    \/ \E p \in Procs : SendEvent(p)
    \/ \E p \in Procs : BackpressureTimeout(p)
    \/ \E p \in Procs : SendCtxDone(p)
    \/ \E p \in Procs : RecvReply(p)
    \/ \E p \in Procs : RecvCtxDone(p)
    \/ \E p \in Procs : CancelRequest(p)
    \/ LoopRecv
    \/ LoopCtxDone
    \/ LoopClosed
    \/ CancelLoop
    \/ CloseEvents

Spec == Init /\ [][Next]_vars

\* The steps of one handler after its start, and the steps of Grid.Loop.
HandlerStep(p) ==
    \/ SendEvent(p)
    \/ BackpressureTimeout(p)
    \/ SendCtxDone(p)
    \/ RecvReply(p)
    \/ RecvCtxDone(p)

LoopStep == LoopRecv \/ LoopCtxDone \/ LoopClosed

\* The server with the requests a full channel needs: QueueCap of them fill
\* it and one more finds it full.
LiveProcs == {"g1", "m1", "m2"}

NextLive ==
    \/ \E p \in LiveProcs : graphHandler(p)
    \/ \E p \in LiveProcs : measurementsHandler(p)
    \/ \E p \in LiveProcs : SendEvent(p)
    \/ \E p \in LiveProcs : BackpressureTimeout(p)
    \/ \E p \in LiveProcs : SendCtxDone(p)
    \/ \E p \in LiveProcs : RecvReply(p)
    \/ \E p \in LiveProcs : RecvCtxDone(p)
    \/ \E p \in LiveProcs : CancelRequest(p)
    \/ LoopRecv
    \/ LoopCtxDone
    \/ LoopClosed
    \/ CancelLoop
    \/ CloseEvents

\* The goroutines of the handlers and of Grid.Loop are scheduled fairly and
\* timers fire: a goroutine that can take a step takes one. The arrival of
\* requests and the cancellation of contexts are up to the environment.
Fairness ==
    /\ WF_vars(LoopStep)
    /\ \A p \in LiveProcs : WF_vars(HandlerStep(p))

FairSpec == Init /\ [][NextLive]_vars /\ Fairness

\* The server with one request to each route, each of which may fail a guard
\* of the route or pass them all.
BoundaryProcs == {"g1", "m1"}

NextBoundary ==
    \/ \E p \in BoundaryProcs : Rejected(p)
    \/ \E p \in BoundaryProcs : graphHandler(p)
    \/ \E p \in BoundaryProcs : measurementsHandler(p)
    \/ \E p \in BoundaryProcs : SendEvent(p)
    \/ \E p \in BoundaryProcs : RecvReply(p)
    \/ \E p \in BoundaryProcs : CancelRequest(p)
    \/ \E p \in BoundaryProcs : SendCtxDone(p)
    \/ \E p \in BoundaryProcs : RecvCtxDone(p)
    \/ LoopRecv

SpecBoundary == Init /\ [][NextBoundary]_vars



\* ------------------------------------------------------------------------
\* SpecWrap: foundation.WrapMiddleware on a drawn list of middlewares, and a
\* request served by the handler it returns.

MaxMw == 3

\* The middlewares a list can hold; Nil is the nil Middleware.
Middlewares == {"m1", "m2", "m3"}

\* The handler given to WrapMiddleware, as a handler of one layer.
FinalHandler == <<"handler">>

\* Mutant of applyMw: the middleware is put next to the final handler, inside
\* the layers the handler has.
applyMwInnermost(mwFunc, h) ==
    SubSeq(h, 1, Len(h) - 1) \o <<mwFunc>> \o <<h[Len(h)]>>

\* "mwFunc(handler)": the handler that runs the middleware and, when the
\* middleware calls next, the handler it was given.
applyMw(mwFunc, h) == <<mwFunc>> \o h

InitWrap ==
    /\ InitGrid
    /\ InitGridIdle
    /\ InitLoop
    /\ InitHandlers
    /\ nodesIn = <<>> /\ edgesIn = <<>> /\ phase = "off" /\ rawEdges = <<>>
    /\ mw \in SeqsUpTo(Middlewares \cup {Nil}, MaxMw)
    /\ wrapI = Len(mw)
    /\ handler = FinalHandler
    /\ trace = <<>>
    /\ wrapPc = "loop"

\* WrapMiddleware, one iteration of "for i := len(mw) - 1; i >= 0; i--" (the
\* index counts from 1 here).
WrapMiddlewareLoop ==
    /\ wrapPc = "loop"
    /\ wrapI >= 1
    /\ handler' = IF mw[wrapI] # Nil THEN applyMw(mw[wrapI], handler) ELSE handler
    /\ wrapI' = wrapI - 1
    /\ UNCHANGED <<mw, trace, wrapPc>>
    /\ UNCHANGED <<nodesIn, edgesIn, phase, rawEdges>>
    /\ UNCHANGED <<engineVars, gridVars, loopVars, handlerVars>>

\* WrapMiddleware, the end of the loop and "return handler".
WrapMiddlewareReturn ==
    /\ wrapPc = "loop"
    /\ wrapI < 1
    /\ wrapPc' = "wrapped"
    /\ UNCHANGED <<mw, wrapI, handler, trace>>
    /\ UNCHANGED <<nodesIn, edgesIn, phase, rawEdges>>
    /\ UNCHANGED <<engineVars, gridVars, loopVars, handlerVars>>

\* A request reaches the next layer of the handler: the outermost at first,
\* then the one the layer before it called as next. The final handler ends
\* the request.
ServeHTTP ==
    /\ wrapPc \in {"wrapped", "serving"}
    /\ Len(trace) < Len(handler)
    /\ trace' = Append(trace, handler[Len(trace) + 1])
    /\ wrapPc' = IF Len(trace') = Len(handler) THEN "served" ELSE "serving"
    /\ UNCHANGED <<mw, wrapI, handler>>
    /\ UNCHANGED <<nodesIn, edgesIn, phase, rawEdges>>
    /\ UNCHANGED <<engineVars, gridVars, loopVars, handlerVars>>

\* The middleware that runs responds itself and does not call next, as
\* RequireMethod does on a wrong method.
ServeStop ==
    /\ wrapPc = "serving"
    /\ wrapPc' = "stopped"
    /\ UNCHANGED <<mw, wrapI, handler, trace>>
    /\ UNCHANGED <<nodesIn, edgesIn, phase, rawEdges>>
    /\ UNCHANGED <<engineVars, gridVars, loopVars, handlerVars>>

NextWrap == WrapMiddlewareLoop \/ WrapMiddlewareReturn \/ ServeHTTP \/ ServeStop

SpecWrap == InitWrap /\ [][NextWrap]_vars

\* ------------------------------------------------------------------------
\* SpecShutdown: the server under run, which closes the channel when it
\* returns ("defer close(events)"), on each of its three ways out.

\* run, "case err := <-serverErrs: return": the listener fails, run returns at
\* once and the deferred close runs, whatever the handlers and Grid.Loop are
\* doing.
runServerErr ==
    /\ ~closed
    /\ ~loopCtxDone
    /\ closed' = TRUE
    /\ queuedAtClose' = [k \in 1..Len(events) |-> events[k].Reply]
    /\ UNCHANGED <<events, loopPc, loopCtxDone, enqLog, appLog>>
    /\ UNCHANGED <<engineVars, pureVars, gridVars, handlerVars>>

\* run, "case <-ctx.Done()" where server.Shutdown runs out of time: a handler
\* is still in progress, run calls server.Close and returns without waiting,
\* and the deferred close runs.
runShutdownTimeout ==
    /\ ~closed
    /\ loopCtxDone
    /\ \E p \in Procs : pc[p] \in {"send", "recv"}
    /\ closed' = TRUE
    /\ queuedAtClose' = [k \in 1..Len(events) |-> events[k].Reply]
    /\ UNCHANGED <<events, loopPc, loopCtxDone, enqLog, appLog>>
    /\ UNCHANGED <<engineVars, pureVars, gridVars, handlerVars>>

\* run, "case <-ctx.Done()" where server.Shutdown succeeds: no handler is in
\* progress, wg.Wait waits for Grid.Loop to return, then run returns and the
\* deferred close runs.
runShutdown ==
    /\ ~closed
    /\ loopCtxDone
    /\ \A p \in Procs : pc[p] \in {"idle", "done"}
    /\ loopPc = "returned"
    /\ closed' = TRUE
    /\ queuedAtClose' = [k \in 1..Len(events) |-> events[k].Reply]
    /\ UNCHANGED <<events, loopPc, loopCtxDone, enqLog, appLog>>
    /\ UNCHANGED <<engineVars, pureVars, gridVars, handlerVars>>

\* "case events <- updateEvent" on the closed channel: the send panics, the
\* Recover middleware turns the panic into a 500.
SendOnClosed(p) ==
    /\ pc[p] = "send"
    /\ closed
    /\ Respond(p, StatusInternalServerError, <<>>)
    /\ UNCHANGED <<evt, resp, ctxDone, req>>
    /\ UNCHANGED <<engineVars, pureVars, gridVars, loopVars>>

NextShutdown ==
    \/ \E p \in LiveProcs : graphHandler(p)
    \/ \E p \in LiveProcs : measurementsHandler(p)
    \/ \E p \in LiveProcs : SendEvent(p)
    \/ \E p \in LiveProcs : SendOnClosed(p)
    \/ \E p \in LiveProcs : BackpressureTimeout(p)
    \/ \E p \in LiveProcs : SendCtxDone(p)
    \/ \E p \in LiveProcs : RecvReply(p)
    \/ \E p \in LiveProcs : RecvCtxDone(p)
    \/ \E p \in LiveProcs : CancelRequest(p)
    \/ LoopRecv
    \/ LoopCtxDone
    \/ LoopClosed
    \/ CancelLoop
    \/ runServerErr
    \/ runShutdownTimeout
    \/ runShutdown

SpecShutdown == Init /\ [][NextShutdown]_vars

\* ------------------------------------------------------------------------
\* Properties of NewGraph and computeIslands (SpecPure)

\* The positions <<i, j>> at which node n occurs in a partition.
Occurrences(isl, n) ==
    {ij \in UNION {{<<i, j>> : j \in 1..Len(isl[i])} : i \in 1..Len(isl)} :
        isl[ij[1]][ij[2]] = n}

\* C7 Partition completeness: every declared node occurs in exactly one
\* component and once inside it, the union of the components is the set of
\* declared nodes and no component is empty.
C7_PartitionComplete ==
    phase = "done" =>
        /\ \A n \in Range(nodesIn) : Cardinality(Occurrences(islands, n)) = 1
        /\ UNION {Range(islands[i]) : i \in 1..Len(islands)} = Range(nodesIn)
        /\ \A i \in 1..Len(islands) : islands[i] # <<>>

\* A node list with a repeated identifier, a repeated edge and a self-loop.
C7_Witness ==
    /\ phase = "done"
    /\ Cardinality(Range(nodesIn)) < Len(nodesIn)
    /\ Len(edgesIn) = 2 /\ edgesIn[1] = edgesIn[2]
    /\ \E k \in 1..Len(edgesIn), a \in Range(nodesIn) : edgesIn[k] = <<a, a>>
    /\ Len(islands) = 2

\* The edges NewGraph accepts: two endpoints, both declared.
Accepted(nodes, edges) ==
    {edges[k] : k \in {k \in 1..Len(edges) :
        /\ Len(edges[k]) = 2
        /\ edges[k][1] \in Range(nodes)
        /\ edges[k][2] \in Range(nodes)}}

\* The nodes reachable from the set S along the undirected edges acc.
RECURSIVE Reach(_, _)
Reach(S, acc) ==
    LET S2 == S \cup {e[2] : e \in {e \in acc : e[1] \in S}}
                \cup {e[1] : e \in {e \in acc : e[2] \in S}}
    IN IF S2 = S THEN S ELSE Reach(S2, acc)

SameIsland(isl, a, b) == \E i \in 1..Len(isl) : a \in Range(isl[i]) /\ b \in Range(isl[i])

\* C8 Components are the connected components: two declared nodes are in the
\* same component iff a path of accepted edges joins them, and a node with
\* no accepted edge to another node is a component of its own.
C8_ConnectedComponents ==
    phase = "done" =>
        LET acc == Accepted(nodesIn, edgesIn)
        IN /\ \A a, b \in Range(nodesIn) :
                 SameIsland(islands, a, b) <=> b \in Reach({a}, acc)
           /\ \A a \in Range(nodesIn) :
                 Reach({a}, acc) = {a} => \E i \in 1..Len(islands) : islands[i] = <<a>>

\* An accepted edge, an isolated node declared first, and a dropped edge.
C8_Witness ==
    /\ phase = "done"
    /\ nodesIn = <<"C", "A", "B">>
    /\ edgesIn = <<<<"A", "B">>, <<"A">>>>
    /\ islands = <<<<"C">>, <<"A", "B">>>>

\* ------------------------------------------------------------------------
\* Properties of Grid.update (SpecGrid)

RECURSIVE SumOver(_, _)
SumOver(S, m) ==
    IF S = {} THEN 0
    ELSE LET x == CHOOSE x \in S : TRUE IN m[x] + SumOver(S \ {x}, m)

\* The sum of the stored values of the members of a component.
ComponentSum(island, m) == SumOver(Range(island) \cap DOMAIN m, m)

\* totals has one entry per component of isl, in order, each with the sum of
\* the stored values of its members.
TotalsOf(totals, isl, m) ==
    /\ Len(totals) = Len(isl)
    /\ \A i \in 1..Len(isl) :
          /\ totals[i].Island = isl[i]
          /\ totals[i].Total = ComponentSum(isl[i], m)

\* C3 A measurement update stores the value iff the node is declared in the
\* current topology and leaves the store unchanged otherwise; its reply lists
\* the current partition, and for an undeclared node it carries the totals a
\* reply would have carried before the request.
C3_MeasurementUpdate ==
    [][lastEvt'.type = "MeasurementUpdate" =>
         LET n == lastEvt'.Node
             v == lastEvt'.Value
         IN /\ n \in Range(graph.Nodes) =>
                 /\ DOMAIN measurements' = DOMAIN measurements \cup {n}
                 /\ measurements'[n] = v
                 /\ \A x \in DOMAIN measurements \ {n} : measurements'[x] = measurements[x]
            /\ n \notin Range(graph.Nodes) =>
                 /\ measurements' = measurements
                 /\ out' = aggregate(Grid)
            /\ Len(out') = Len(islands)
            /\ \A i \in 1..Len(islands) : out'[i].Island = islands[i]]_vars

\* A measurement for the never declared node, answered with non-zero totals.
C3_Witness ==
    /\ lastEvt.type = "MeasurementUpdate"
    /\ lastEvt.Node = "ghost"
    /\ \E i \in 1..Len(out) : out[i].Total # 0

\* C4 Aggregation: the reply of a measurement update has one entry per
\* component, in partition order, whose total is the sum of the stored values
\* of the members of the component (0 without a measured member; stored
\* values of nodes outside the partition count nowhere).
C4_Aggregate ==
    lastEvt.type = "MeasurementUpdate" => TotalsOf(out, islands, measurements)

\* One component with two measured members while a third node, absent from
\* the partition, has a stored value.
C4_Witness ==
    /\ lastEvt.type = "MeasurementUpdate"
    /\ Len(islands) = 1 /\ Len(islands[1]) = 2
    /\ Range(islands[1]) \subseteq DOMAIN measurements
    /\ \E x \in DOMAIN measurements : x \notin DOMAIN nodeToIsland
    /\ Len(out) = 1

\* C5 Retention: a topology update keeps every stored value, whether or not
\* the new topology declares the node; and when it declares the node, the
\* total of the node's component includes the value.
C5_Retention ==
    [][lastEvt'.type = "GraphUpdate" =>
         \A X \in DOMAIN measurements :
            /\ X \in DOMAIN measurements'
            /\ measurements'[X] = measurements[X]
            /\ X \in Range(graph'.Nodes) =>
                 \E i \in 1..Len(islands') :
                    /\ X \in Range(islands'[i])
                    /\ aggregate(Grid')[i].Total =
                          measurements[X]
                            + SumOver((Range(islands'[i]) \cap DOMAIN measurements') \ {X},
                                      measurements')]_vars

\* A node whose value was stored, then absent from a topology, and declared
\* again by the topology just applied.
C5_Witness ==
    /\ lastEvt.type = "GraphUpdate"
    /\ \E X \in stale : X \in Range(graph.Nodes) /\ X \in DOMAIN measurements

\* C6 A topology update replaces the topology by the one of the request and
\* the partition and index by those computed from it, replies with the new
\* partition and leaves the measurement store unchanged.
C6_GraphUpdate ==
    [][lastEvt'.type = "GraphUpdate" =>
         LET r == computeIslands(lastEvt'.Graph)
         IN /\ graph' = lastEvt'.Graph
            /\ islands' = r.islands
            /\ nodeToIsland' = r.nodeToIsland
            /\ out' = r.islands
            /\ measurements' = measurements]_vars

\* A topology update applied to a grid with stored values that changes the
\* partition.
C6_Witness ==
    /\ lastEvt.type = "GraphUpdate"
    /\ measurements # EmptyMap
    /\ Len(islands) = 2
    /\ out = islands

\* ------------------------------------------------------------------------
\* Properties of the server (Spec, FairSpec)

\* The reply to request p: in its reply channel, or read into the response.
Replied(p) == resp[p] # <<>> \/ status[p] = StatusOK

ReplyOf(p) == IF resp[p] # <<>> THEN Head(resp[p]) ELSE body[p]

ComponentLists(totals) == [i \in 1..Len(totals) |-> totals[i].Island]

\* The partition of the topology a /graph request submitted.
PartitionOf(g) == computeIslands(evt[g].Graph).islands

\* The partition in force when the k-th applied event was applied: that of
\* the last topology update applied before it, the empty one if there is none.
PartitionAt(k) ==
    LET before == {j \in 1..(k - 1) : appLog[j] \in GraphProcs}
    IN IF before = {} THEN <<>>
       ELSE PartitionOf(appLog[CHOOSE j \in before : \A i \in before : i <= j])

\* C1 Serial consistency: every measurement reply lists exactly the
\* components of the partition in force when the measurement was applied,
\* which for a topology update submitted concurrently is the partition
\* before the update or the one after it, never a mix of the two.
C1_SerialConsistency ==
    \A k \in 1..Len(appLog) :
        LET m == appLog[k]
        IN (m \in MeasProcs /\ Replied(m)) =>
              /\ ComponentLists(ReplyOf(m)) = PartitionAt(k)
              /\ \A g \in GraphProcs :
                    (GraphProcs \cap Range(appLog) = {g}) =>
                        ComponentLists(ReplyOf(m)) \in {<<>>, PartitionOf(g)}

\* Both topology updates and both measurements were enqueued; one measurement
\* was applied between the two updates, the other after them, and their
\* replies list different partitions.
C1_Witness ==
    /\ Len(appLog) = 4
    /\ appLog[1] \in GraphProcs /\ appLog[2] \in MeasProcs
    /\ appLog[3] \in GraphProcs /\ appLog[4] \in MeasProcs
    /\ Len(enqLog) = 4
    /\ \A m \in MeasProcs : Replied(m) /\ ReplyOf(m) # <<>>
    /\ ComponentLists(ReplyOf("m1")) # ComponentLists(ReplyOf("m2"))

\* The grid after the events of the requests of log were applied in order.
RECURSIVE Replay(_, _)
Replay(s, log) ==
    IF log = <<>> THEN s
    ELSE Replay(update(s, evt[Head(log)]).grid, Tail(log))

\* C2 FIFO: the events are applied in the order of their enqueue (the applied
\* requests are a prefix of the enqueued ones and the channel holds the others
\* in order), and the grid is the result of applying them one after the
\* other, each to the state all the earlier ones produced.
C2_Fifo ==
    /\ Len(appLog) <= Len(enqLog)
    /\ appLog = SubSeq(enqLog, 1, Len(appLog))
    /\ events = [k \in 1..(Len(enqLog) - Len(appLog)) |-> evt[enqLog[Len(appLog) + k]]]
    /\ Grid = Replay(NewGrid, appLog)

\* Two events applied while two more wait in the channel.
C2_Witness ==
    /\ Len(appLog) = 2
    /\ Len(events) = 2
    /\ appLog[1] \in MeasProcs /\ appLog[2] \in GraphProcs

\* C9 Measurement backpressure: a measurement handler whose select ends while
\* the channel is full and its caller has not cancelled responds 429 and its
\* event is not enqueued; and it does not stay in the select for ever.
C9_MeasurementBackpressure ==
    /\ [][\A p \in MeasProcs :
            (/\ pc[p] = "send"
             /\ pc'[p] # "send"
             /\ ~chanHasRoom(events, QueueCap)
             /\ ~ctxDone[p])
            => /\ status'[p] = StatusTooManyRequests
               /\ pc'[p] = "done"
               /\ events' = events
               /\ enqLog' = enqLog]_vars
    /\ \A p \in MeasProcs : (pc[p] = "send") ~> (pc[p] # "send")

\* A measurement was rejected with 429 while the channel is full; its caller
\* did not cancel and its event was never enqueued.
C9_Witness ==
    \E p \in MeasProcs :
        /\ status[p] = StatusTooManyRequests
        /\ ~ctxDone[p]
        /\ ~chanHasRoom(events, QueueCap)
        /\ p \notin Range(enqLog)
        /\ p \notin Range(appLog)

\* C10 Topology-update backpressure: a /graph handler waiting on a full
\* channel ends with the overload outcome, unless a slot frees or its caller
\* cancels first.
C10_GraphBackpressure ==
    \A p \in GraphProcs :
        (pc[p] = "send" /\ ~chanHasRoom(events, QueueCap) /\ ~ctxDone[p])
            ~> (\/ status[p] = StatusTooManyRequests
                \/ chanHasRoom(events, QueueCap)
                \/ ctxDone[p])

\* C11 Topology-update timeout on a full channel: a /graph handler that
\* leaves its select while the channel is full responds 408 and enqueues
\* nothing; with no consumer and its caller's deadline passed it does so.
C11_GraphTimeout ==
    /\ [][\A p \in GraphProcs :
            (/\ pc[p] = "send"
             /\ pc'[p] # "send"
             /\ ~chanHasRoom(events, QueueCap))
            => /\ ctxDone[p]
               /\ status'[p] = StatusRequestTimeout
               /\ pc'[p] = "done"
               /\ events' = events
               /\ enqLog' = enqLog]_vars
    /\ \A p \in GraphProcs :
          (/\ pc[p] = "send"
           /\ ctxDone[p]
           /\ ~chanHasRoom(events, QueueCap)
           /\ loopPc = "returned")
              ~> (status[p] = StatusRequestTimeout /\ p \notin Range(enqLog))

\* A /graph request was answered 408 on a full channel nobody receives from;
\* its event was never enqueued.
C11_Witness ==
    \E p \in GraphProcs :
        /\ status[p] = StatusRequestTimeout
        /\ ~chanHasRoom(events, QueueCap)
        /\ loopPc = "returned"
        /\ p \notin Range(enqLog)

\* C12 Caller abandonment after enqueue: a handler that leaves its wait for
\* the reply without one responds 408 and its event stays where it is; the
\* event of a request answered 408 is applied at its turn, to the state the
\* earlier events produced, and it is applied eventually unless the context
\* of Grid.Loop is cancelled.
C12_Abandonment ==
    /\ [][\A p \in Procs :
            (pc[p] = "recv" /\ pc'[p] = "done" /\ resp[p] = <<>>)
            => /\ status'[p] = StatusRequestTimeout
               /\ events' = events
               /\ enqLog' = enqLog
               /\ appLog' = appLog]_vars
    /\ [][\A p \in Procs :
            (status[p] = StatusRequestTimeout /\ appLog' = Append(appLog, p))
            => /\ p = enqLog[Len(appLog) + 1]
               /\ Grid' = update(Grid, evt[p]).grid]_vars
    /\ \A p \in Procs :
          (status[p] = StatusRequestTimeout /\ p \in Range(enqLog))
              ~> (p \in Range(appLog) \/ loopCtxDone)

\* A measurement was answered 408 after its enqueue and applied all the same:
\* the totals a later measurement got contain its value.
C12_Witness ==
    \E m \in MeasProcs, n \in MeasProcs :
        /\ status[m] = StatusRequestTimeout
        /\ m \in Range(appLog)
        /\ status[n] = StatusOK
        /\ \E i \in 1..Len(body[n]) :
              /\ evt[m].Node \in Range(body[n][i].Island)
              /\ evt[n].Node \notin Range(body[n][i].Island)
              /\ body[n][i].Total = evt[m].Value

\* C13 The engine never blocks on a reply: a reply channel never holds more
\* than its capacity of one, every request is applied at most once, the
\* reply channel of every queued event is empty, and Grid.Loop can take its
\* receive step whenever it runs and the channel holds an event.
C13_ReplyNeverBlocks ==
    /\ \A p \in Procs : Len(resp[p]) <= 1
    /\ \A p \in Procs : Cardinality({k \in 1..Len(appLog) : appLog[k] = p}) <= 1
    /\ \A k \in 1..Len(events) : resp[events[k].Reply] = <<>>
    /\ (loopPc = "running" /\ events # <<>>) => ENABLED LoopRecv

\* A handler gave up with 408, its reply was delivered all the same and lies
\* unread in its channel, and Grid.Loop went on to apply a later event.
C13_Witness ==
    \E p \in Procs :
        /\ status[p] = StatusRequestTimeout
        /\ resp[p] # <<>>
        /\ \E k \in 1..(Len(appLog) - 1) : appLog[k] = p

\* The events channel only grew: nothing was received from it.
NoDequeue == Len(events') >= Len(events) /\ SubSeq(events', 1, Len(events)) = events

\* C14 as stated: once the context of Grid.Loop is cancelled, no event is
\* dequeued or applied and the grid does not change.
C14_NoApplyAfterCancel ==
    [][loopCtxDone => (NoDequeue /\ appLog' = appLog /\ Grid' = Grid)]_vars

\* C14 amended: once Grid.Loop has returned, and in the step in which it
\* returns, no event is dequeued or applied and the grid does not change.
C14_NoApplyAfterReturn ==
    [][loopPc' = "returned" => (NoDequeue /\ appLog' = appLog /\ Grid' = Grid)]_vars

\* Grid.Loop returned on cancellation and left a full channel behind, with a
\* handler still waiting for its reply.
C14_Witness ==
    /\ loopPc = "returned"
    /\ loopCtxDone
    /\ ~chanHasRoom(events, QueueCap)
    /\ \E p \in Procs : pc[p] = "recv" /\ p \notin Range(appLog)

\* C15 Graceful shutdown: a request whose event is enqueued while the
\* context of Grid.Loop is not cancelled gets the result of the engine,
\* unless its own caller gives up; the cancellation of the context of
\* Grid.Loop (SIGINT) does not excuse it.
C15_GracefulShutdown ==
    \A p \in Procs :
        (pc[p] = "recv" /\ ~loopCtxDone)
            ~> (status[p] = StatusOK \/ ctxDone[p])

\* C16 Engine termination: once its context is cancelled or its channel is
\* closed Grid.Loop returns eventually, and it has returned only if one of
\* the two happened.
C16_EngineTermination ==
    /\ (loopCtxDone \/ closed) ~> (loopPc = "returned")
    /\ [](loopPc = "returned" => (loopCtxDone \/ closed))

\* Grid.Loop applied an event, received the rest of a closed channel and
\* returned, its context not cancelled.
C16_Witness ==
    /\ loopPc = "returned"
    /\ closed
    /\ ~loopCtxDone
    /\ appLog # <<>>

\* C17 Progress of a running engine: unless the context of Grid.Loop is
\* cancelled every enqueued event is applied eventually; the reply of an
\* applied event is in its reply channel or was read by its handler; and a
\* handler waiting for its reply gets it (200) unless its caller gives up.
C17_EventuallyApplied ==
    /\ \A p \in Procs :
          (p \in Range(enqLog)) ~> (p \in Range(appLog) \/ loopCtxDone)
    /\ [](\A p \in Procs :
            /\ (p \in Range(appLog)) => (resp[p] # <<>> \/ status[p] = StatusOK)
            /\ (status[p] = StatusOK) => (p \in Range(appLog)))
    /\ \A p \in Procs :
          (pc[p] = "recv") ~> (status[p] = StatusOK \/ ctxDone[p] \/ loopCtxDone)

\* Three requests were enqueued, applied and answered 200 by a running
\* engine.
C17_Witness ==
    /\ ~loopCtxDone
    /\ Len(appLog) = 3
    /\ \A p \in Range(appLog) : status[p] = StatusOK /\ ~ctxDone[p]

\* The requests that load the channel: those whose handler is between its
\* start and its response, and those enqueued and not yet applied.
Outstanding ==
    {q \in Procs : \/ pc[q] \in {"send", "recv"}
                   \/ (q \in Range(enqLog) /\ q \notin Range(appLog))}

\* C18 Burst absorption: a measurement is rejected with 429 only when more
\* requests are outstanding than the channel has slots, and answered 408
\* only when its caller gave up; a measurement handler in its send ends with
\* 200 unless it is so rejected, its caller gives up or the context of
\* Grid.Loop is cancelled.
C18_BurstAbsorption ==
    /\ [][\A p \in MeasProcs :
            /\ (status[p] # StatusTooManyRequests /\ status'[p] = StatusTooManyRequests)
                  => Cardinality(Outstanding) > QueueCap
            /\ (status'[p] = StatusRequestTimeout) => ctxDone[p]]_vars
    /\ \A p \in MeasProcs :
          (pc[p] = "send")
              ~> (\/ status[p] = StatusOK
                  \/ status[p] = StatusTooManyRequests
                  \/ ctxDone[p]
                  \/ loopCtxDone)

\* A burst of QueueCap measurements and nothing else: both answered 200.
C18_Witness ==
    /\ enqLog = appLog
    /\ Range(enqLog) = MeasProcs
    /\ \A p \in MeasProcs : status[p] = StatusOK /\ ~ctxDone[p]
    /\ \A p \in GraphProcs : pc[p] = "idle"

C34_DrainOnClose ==
    /\ (closed /\ ~loopCtxDone)
          ~> (\/ loopCtxDone
              \/ /\ loopPc = "returned"
                 /\ \A k \in 1..Len(queuedAtClose) : queuedAtClose[k] \in Range(appLog))
    /\ []((loopPc = "returned" /\ ~loopCtxDone) =>
             /\ closed
             /\ events = <<>>
             /\ appLog = enqLog)
    /\ [](closed =>
             /\ Len(queuedAtClose) <= Len(enqLog)
             /\ queuedAtClose = SubSeq(enqLog, Len(enqLog) - Len(queuedAtClose) + 1, Len(enqLog))
             /\ Len(appLog) <= Len(enqLog)
             /\ appLog = SubSeq(enqLog, 1, Len(appLog)))

\* The channel was closed while it held the event of a request whose caller
\* had given up; Grid.Loop, its context not cancelled, applied it and
\* returned.
C34_Witness ==
    /\ closed
    /\ ~loopCtxDone
    /\ queuedAtClose # <<>>
    /\ loopPc = "returned"
    /\ events = <<>>
    /\ \A k \in 1..Len(queuedAtClose) :
          /\ queuedAtClose[k] \in Range(appLog)
          /\ resp[queuedAtClose[k]] # <<>>

\* ------------------------------------------------------------------------
\* More properties of NewGraph (SpecPure)

\* An edge NewGraph accepts: two endpoints, both in the node list.
WellFormed(nodes, edge) ==
    /\ Len(edge) = 2
    /\ edge[1] \in Range(nodes)
    /\ edge[2] \in Range(nodes)

\* What an accepted edge appends to the adjacency list of n.
Contribution(n, edge) ==
    (IF edge[1] = n THEN <<edge[2]>> ELSE <<>>)
        \o (IF edge[2] = n THEN <<edge[1]>> ELSE <<>>)

\* The adjacency list of n the first k edges give, dropped edges left out.
RECURSIVE ExpectedAdj(_, _, _, _)
ExpectedAdj(nodes, edges, n, k) ==
    IF k = 0 THEN <<>>
    ELSE ExpectedAdj(nodes, edges, n, k - 1)
             \o (IF WellFormed(nodes, edges[k]) THEN Contribution(n, edges[k])
                 ELSE <<>>)

\* C20 Malformed edge tolerance: NewGraph returns a graph for every input,
\* with the node list as given and an adjacency list for each listed node;
\* the lists hold what the well-formed edges append and nothing else, and
\* they are the lists of the input without the dropped edges.
C20_MalformedEdges ==
    phase \in {"built", "done"} =>
        /\ graph.Nodes = nodesIn
        /\ DOMAIN graph.Edges = Range(nodesIn)
        /\ \A n \in Range(nodesIn) :
              graph.Edges[n] = ExpectedAdj(nodesIn, edgesIn, n, Len(edgesIn))
        /\ graph.Edges =
              NewGraph(nodesIn,
                       SelectSeq(edgesIn, LAMBDA e : WellFormed(nodesIn, e))).Edges

\* An edge to an endpoint the node list does not name is dropped and the
\* edge after it accepted.
C20_Witness ==
    /\ phase = "built"
    /\ Len(edgesIn) = 2
    /\ Len(edgesIn[1]) = 2
    /\ edgesIn[1][1] \in Range(nodesIn)
    /\ edgesIn[1][2] \notin Range(nodesIn)
    /\ WellFormed(nodesIn, edgesIn[2])
    /\ edgesIn[2][1] # edgesIn[2][2]
    /\ graph.Edges[edgesIn[2][1]] = <<edgesIn[2][2]>>

\* The number of positions of the sequence s that hold x.
Count(s, x) == Cardinality({k \in 1..Len(s) : s[k] = x})

\* C21 Graph well-formedness: in a graph NewGraph built, B is listed as a
\* neighbour of A iff A is listed as a neighbour of B (and as many times),
\* the adjacency map has a key for exactly the declared nodes, those without
\* neighbours included, and HasNode(id) holds iff id is a declared node.
C21_GraphWellFormed ==
    phase \in {"built", "done"} =>
        /\ \A a \in MeasNodes, b \in MeasNodes :
              /\ (b \in Range(Adj(graph, a))) <=> (a \in Range(Adj(graph, b)))
              /\ Count(Adj(graph, a), b) = Count(Adj(graph, b), a)
        /\ DOMAIN graph.Edges = Range(nodesIn)
        /\ \A id \in MeasNodes : HasNode(graph, id) <=> id \in Range(nodesIn)

\* A graph with an accepted edge between two nodes and a dropped edge that
\* names an undeclared identifier, which has no key.
C21_Witness ==
    /\ phase = "built"
    /\ \E a \in Range(nodesIn), b \in Range(nodesIn) :
          a # b /\ b \in Range(graph.Edges[a])
    /\ \E k \in 1..Len(edgesIn), id \in IDs \ Range(nodesIn) :
          id \in Range(edgesIn[k])
    /\ \E id \in IDs : ~HasNode(graph, id)

\* The positions of the edge list that hold an accepted edge between n and m.
Joining(nodes, edges, n, m) ==
    {k \in 1..Len(edges) :
        WellFormed(nodes, edges[k]) /\ {edges[k][1], edges[k][2]} = {n, m}}

\* C27 as stated: every neighbour identifier occurs at most once in the
\* neighbour collection of a node, whatever the edge list.
C27_NeighbourSet ==
    phase \in {"built", "done"} =>
        \A n \in Range(nodesIn), m \in IDs : Count(graph.Edges[n], m) <= 1

\* C27 amended: a neighbour occurs in the neighbour collection of a node once
\* for every accepted edge of the list that joins the two, twice for every
\* accepted self-loop; so at most once when no accepted edge is a self-loop
\* and no two of them join the same two nodes.
C27_NeighbourMultiplicity ==
    phase \in {"built", "done"} =>
        /\ \A n \in Range(nodesIn), m \in IDs :
              Count(graph.Edges[n], m) =
                  (IF n = m THEN 2 ELSE 1) * Cardinality(Joining(nodesIn, edgesIn, n, m))
        /\ (\A n \in Range(nodesIn), m \in IDs :
                /\ Cardinality(Joining(nodesIn, edgesIn, n, m)) <= 1
                /\ Joining(nodesIn, edgesIn, n, n) = {})
              => \A n \in Range(nodesIn), m \in IDs : Count(graph.Edges[n], m) <= 1

\* The same edge was given in both directions: each of its two nodes lists
\* the other twice.
C27_Witness ==
    /\ phase = "built"
    /\ Len(edgesIn) = 2
    /\ WellFormed(nodesIn, edgesIn[1])
    /\ edgesIn[1][1] # edgesIn[1][2]
    /\ edgesIn[2] = <<edgesIn[1][2], edgesIn[1][1]>>
    /\ graph.Edges[edgesIn[1][1]] = <<edgesIn[1][2], edgesIn[1][2]>>
    /\ graph.Edges[edgesIn[1][2]] = <<edgesIn[1][1], edgesIn[1][1]>>

\* The first position of n in the node list.
FirstPos(nodes, n) ==
    CHOOSE k \in 1..Len(nodes) : nodes[k] = n /\ \A j \in 1..(k - 1) : nodes[j] # n

\* C30 Component order: the first node of every component is the member
\* declared earliest in the node list, and the components are in increasing
\* order of the declared position of their first node.
C30_ComponentOrder ==
    phase = "done" =>
        /\ \A i \in 1..Len(islands) : \A x \in Range(islands[i]) :
              FirstPos(nodesIn, islands[i][1]) <= FirstPos(nodesIn, x)
        /\ \A i \in 1..Len(islands), j \in 1..Len(islands) :
              i < j => FirstPos(nodesIn, islands[i][1]) < FirstPos(nodesIn, islands[j][1])

\* Two components; the first starts with the first declared node and ends
\* with the last declared one, the second is the node declared between them.
C30_Witness ==
    /\ phase = "done"
    /\ Len(nodesIn) = 3
    /\ Len(islands) = 2
    /\ islands[1] = <<nodesIn[1], nodesIn[3]>>
    /\ islands[2] = <<nodesIn[2]>>
    /\ nodesIn[1] = "B"

\* The neighbours of n other than n itself, in the order of its adjacency list.
OtherNeighbours(g, n) == SelectSeq(Adj(g, n), LAMBDA x : x # n)

\* C31 Within-component order: the components list their nodes in the order
\* a stack-based depth-first search pops them, the neighbour pushed last
\* first: the second node of a component is the last neighbour in the
\* adjacency list of its first node, and nodes [A,B,C] with edges
\* [[A,B],[A,C]] give the single component [A,C,B].
C31_VisitOrder ==
    phase = "done" =>
        /\ \A i \in 1..Len(islands) :
              Len(islands[i]) >= 2 =>
                  LET nb == OtherNeighbours(graph, islands[i][1])
                  IN nb # <<>> /\ islands[i][2] = nb[Len(nb)]
        /\ (nodesIn = <<"A", "B", "C">> /\ edgesIn = <<<<"A", "B">>, <<"A", "C">>>>)
              => islands = <<<<"A", "C", "B">>>>

\* Nodes [A,B,C] with edges [[A,B],[A,C]]: one component, [A,C,B].
C31_Witness ==
    /\ phase = "done"
    /\ nodesIn = <<"A", "B", "C">>
    /\ edgesIn = <<<<"A", "B">>, <<"A", "C">>>>
    /\ graph.Edges["A"] = <<"B", "C">>
    /\ islands = <<<<"A", "C", "B">>>>

\* ------------------------------------------------------------------------
\* More properties of Grid.update (SpecGrid)

\* C23 Latest value wins: an accepted measurement replaces the value stored
\* for its node; the node then counts with the new value alone, not with the
\* sum of the old and the new one, in the total of its component.
C23_LatestValueWins ==
    [][(lastEvt'.type = "MeasurementUpdate" /\ HasNode(graph, lastEvt'.Node)) =>
         LET n == lastEvt'.Node
             v == lastEvt'.Value
         IN /\ measurements'[n] = v
            /\ \A i \in 1..Len(islands') :
                  n \in Range(islands'[i]) =>
                     /\ out'[i].Island = islands'[i]
                     /\ out'[i].Total =
                           v + SumOver((Range(islands'[i]) \cap DOMAIN measurements) \ {n},
                                       measurements)]_vars

\* A node had the value 2 stored, a measurement of 1 for it was accepted, and
\* its component, which has another measured member, has a total that counts
\* the node with 1.
C23_Witness ==
    /\ lastEvt.type = "MeasurementUpdate"
    /\ prev = 2
    /\ lastEvt.Value = 1
    /\ measurements[lastEvt.Node] = 1
    /\ \E i \in 1..Len(out) :
          /\ lastEvt.Node \in Range(out[i].Island)
          /\ \E x \in Range(out[i].Island) \ {lastEvt.Node} :
                /\ x \in DOMAIN measurements
                /\ out[i].Total = 1 + measurements[x]

\* C28 Engine state invariant: after any sequence of topology and
\* measurement requests the stored partition and index are those computed
\* from the stored topology; the index is defined on the declared nodes of
\* that topology and maps n to i iff n is a member of component i.
C28_EngineStateInvariant ==
    LET r == computeIslands(graph)
    IN /\ islands = r.islands
       /\ nodeToIsland = r.nodeToIsland
       /\ DOMAIN nodeToIsland = Range(graph.Nodes)
       /\ \A n \in DOMAIN nodeToIsland : nodeToIsland[n] \in 1..Len(islands)
       /\ \A n \in MeasNodes, i \in 1..Len(islands) :
             (n \in DOMAIN nodeToIsland /\ nodeToIsland[n] = i)
                 <=> n \in Range(islands[i])

\* After two topologies and measurements: two components, a stored value of
\* a node the current topology does not declare, and a measurement applied
\* last.
C28_Witness ==
    /\ lastEvt.type = "MeasurementUpdate"
    /\ Len(islands) = 2
    /\ stale # {}
    /\ \E x \in DOMAIN measurements : x \notin DOMAIN nodeToIsland
    /\ \E x \in DOMAIN measurements : x \in DOMAIN nodeToIsland /\ nodeToIsland[x] = 2

\* C29 Frame of a measurement update: it leaves the topology, the partition
\* and the index as they are, removes no entry of the measurement store and
\* adds or changes at most the entry of the node of the request.
C29_MeasurementFrame ==
    [][lastEvt'.type = "MeasurementUpdate" =>
         LET n == lastEvt'.Node
         IN /\ graph' = graph
            /\ islands' = islands
            /\ nodeToIsland' = nodeToIsland
            /\ DOMAIN measurements \subseteq DOMAIN measurements'
            /\ DOMAIN measurements' \subseteq DOMAIN measurements \cup {n}
            /\ \A x \in DOMAIN measurements \ {n} :
                  measurements'[x] = measurements[x]]_vars

\* A measurement changed the stored value of its node while another node
\* keeps its value.
C29_Witness ==
    /\ lastEvt.type = "MeasurementUpdate"
    /\ prev # 0
    /\ prev # lastEvt.Value
    /\ measurements[lastEvt.Node] = lastEvt.Value
    /\ \E x \in DOMAIN measurements : x # lastEvt.Node /\ measurements[x] = prev
    /\ Len(islands) = 1

\* C32 Measurement store history: a node has a store entry iff a measurement
\* for it was processed while the current topology declared it, and the entry
\* is the value of the last such measurement; a measurement processed while
\* its node is not declared is lost, and no entry is ever removed.
C32_StoreHistory ==
    /\ [](measurements = accepted)
    /\ [][/\ DOMAIN measurements \subseteq DOMAIN measurements'
          /\ (lastEvt'.type = "MeasurementUpdate"
                 /\ lastEvt'.Node \notin Range(graph.Nodes))
               => measurements' = measurements]_vars

\* A value of X was stored, a later topology did not declare X, and the entry
\* of X still has the stored value now that X is declared again, while
\* another declared node has no entry.
C32_Witness ==
    /\ lastEvt.type = "GraphUpdate"
    /\ \E X \in stale :
          /\ X \in Range(graph.Nodes)
          /\ X \in DOMAIN accepted
          /\ measurements[X] = accepted[X]
    /\ \E Y \in Range(graph.Nodes) : Y \notin DOMAIN measurements

\* C33 Initial state: the engine as NewGrid made it answers every measurement
\* request with an empty list of totals and stores nothing, whatever the node
\* of the request, the empty string included; it is then still as NewGrid
\* made it.
C33_InitialState ==
    [][(Grid = NewGrid /\ lastEvt'.type = "MeasurementUpdate") =>
          /\ out' = <<>>
          /\ measurements' = EmptyMap
          /\ Grid' = NewGrid]_vars

\* A measurement for the empty string was answered with the empty list; the
\* engine is as NewGrid made it and no measurement was ever recorded.
C33_Witness ==
    /\ lastEvt.type = "MeasurementUpdate"
    /\ lastEvt.Node = ""
    /\ prev = 0
    /\ out = <<>>
    /\ Grid = NewGrid
    /\ accepted = EmptyMap

\* ------------------------------------------------------------------------
\* Properties of the reference scenario (SpecScenario)

\* The replies the exercise gives for the five requests of the scenario.
ScenarioReplies ==
    <<<<(<<"A", "B">>), (<<"C", "D">>)>>,
      <<[Island |-> <<"A", "B">>, Total |-> 53], [Island |-> <<"C", "D">>, Total |-> 0]>>,
      <<[Island |-> <<"A", "B">>, Total |-> 154], [Island |-> <<"C", "D">>, Total |-> 0]>>,
      <<(<<"A", "C">>), (<<"B", "D">>)>>,
      <<[Island |-> <<"A", "C">>, Total |-> 64], [Island |-> <<"B", "D">>, Total |-> 101]>>>>

\* The first n calls of the run are the first n requests of the scenario.
ScenarioPrefix(n) ==
    /\ Len(hist) >= n
    /\ \A k \in 1..n : hist[k].call = ScenarioCalls[k]

ErrorStatuses ==
    {StatusInternalServerError, StatusMethodNotAllowed,
     StatusUnsupportedMediaType, StatusBadRequest}

\* C25 Boundary rejection: a request with a method other than POST gets 405;
\* a POST with another content type gets 415; a POST of JSON without events
\* channel in its context gets 500; one with the channel and an undecodable
\* payload gets 400. A request so answered enqueues no event and changes
\* nothing of the engine, and is never applied.
C25_BoundaryRejection ==
    /\ [][\A p \in Procs :
            (pc[p] = "idle" /\ pc'[p] # "idle") =>
                LET r == req'[p]
                    failed == ~(RequireMethod(r) /\ RequireJSONContentType(r)
                                   /\ getStateEvents(r) /\ Decode(r))
                IN /\ ~RequireMethod(r) => status'[p] = StatusMethodNotAllowed
                   /\ (RequireMethod(r) /\ ~RequireJSONContentType(r))
                         => status'[p] = StatusUnsupportedMediaType
                   /\ (RequireMethod(r) /\ RequireJSONContentType(r) /\ ~getStateEvents(r))
                         => status'[p] = StatusInternalServerError
                   /\ (RequireMethod(r) /\ RequireJSONContentType(r) /\ getStateEvents(r)
                          /\ ~Decode(r))
                         => status'[p] = StatusBadRequest
                   /\ failed => /\ pc'[p] = "done"
                                /\ events' = events
                                /\ enqLog' = enqLog
                                /\ evt'[p] = NoEvt
                                /\ Grid' = Grid
                   /\ ~failed => (pc'[p] = "send" /\ status'[p] = 0)]_vars
    /\ [](\A p \in Procs :
            status[p] \in ErrorStatuses =>
                /\ pc[p] = "done"
                /\ p \notin Range(enqLog)
                /\ p \notin Range(appLog)
                /\ \A k \in 1..Len(events) : events[k].Reply # p)

\* A GET without JSON content type, channel and valid payload was answered
\* 405 and a POST of an undecodable payload 400, on an engine that holds the
\* state an accepted request gave it.
C25_Witness ==
    \E p \in Procs, q \in Procs :
        /\ status[p] = StatusMethodNotAllowed
        /\ req[p] = [Method |-> "GET", ContentType |-> "text/plain",
                     Events |-> FALSE, Decodes |-> FALSE]
        /\ status[q] = StatusOK
        /\ appLog = <<q>>

\* ------------------------------------------------------------------------
\* Properties of Edge.UnmarshalJSON (SpecDecode)

\* The identifiers the text of an edge lists.
Listed(text) == CHOOSE ids \in EdgeLists : jsonMarshal(ids) = text

\* C26 Edge decoding: UnmarshalJSON returns an error for every edge that
\* does not list exactly two identifiers and none for an edge that does,
\* identifiers with a comma included: a payload is rejected only if one of
\* its edges does not list two identifiers, and every edge passed to
\* NewGraph has two endpoints, those its text lists.
C26_EdgeDecoding ==
    /\ phase = "rejected" =>
          \E k \in 1..Len(rawEdges) : Len(Listed(rawEdges[k])) # 2
    /\ phase \in {"input", "built", "done"} =>
          /\ Len(edgesIn) = Len(rawEdges)
          /\ \A k \in 1..Len(edgesIn) :
                Len(edgesIn[k]) = 2 /\ edgesIn[k] = Listed(rawEdges[k])


\* ------------------------------------------------------------------------
\* Properties of the shutdown of the server (SpecShutdown)

\* C35: no send on a closed queue: once the event channel is closed, on any of
\* the ways run returns, no handler is at its send on the channel, so no
\* handler is blocked in it or attempts it, and none has panicked in it.
C35_NoSendOnClosed ==
    closed => \A p \in LiveProcs :
                 /\ pc[p] # "send"
                 /\ status[p] # StatusInternalServerError


\* ------------------------------------------------------------------------
\* Outcome, enqueue and reply of a request (Spec)

\* C36 Outcome matches enqueue: a handler that leaves its outer select with a
\* response (429, or 408 while it waited for a slot) has not placed its event
\* in the channel and the step leaves the engine state alone; an event enters
\* the channel only by the send of its own handler, which then waits for the
\* reply, and a handler that has responded takes no further step; a request
\* answered 429 is neither enqueued nor applied; a request answered with a
\* result was enqueued exactly once; no request is enqueued or applied more
\* than once, and only enqueued requests are applied.
C36_OutcomeMatchesEnqueue ==
    /\ [][\A p \in Procs :
            /\ (pc[p] = "send" /\ pc'[p] = "done")
                  => /\ status'[p] \in {StatusTooManyRequests, StatusRequestTimeout}
                     /\ p \notin Range(enqLog')
                     /\ Grid' = Grid
                     /\ appLog' = appLog
            /\ (Count(enqLog', p) # Count(enqLog, p))
                  => /\ pc[p] = "send"
                     /\ pc'[p] = "recv"
                     /\ Count(enqLog, p) = 0
                     /\ Count(enqLog', p) = 1
            /\ (pc[p] = "done") => (pc'[p] = "done" /\ status'[p] = status[p])]_vars
    /\ [](\A p \in Procs :
            /\ (status[p] = StatusTooManyRequests)
                  => (p \notin Range(enqLog) /\ p \notin Range(appLog))
            /\ (status[p] = StatusOK) => (Count(enqLog, p) = 1 /\ Count(appLog, p) = 1)
            /\ Count(enqLog, p) <= 1
            /\ Count(appLog, p) <= Count(enqLog, p)
            /\ (pc[p] \in {"idle", "send"}) => (p \notin Range(enqLog)))

\* All three outcomes side by side: one request answered 429, one that gave
\* up with 408 while it waited for a slot, and one answered with its result.
C36_Witness ==
    /\ \E p \in MeasProcs : status[p] = StatusTooManyRequests
    /\ \E p \in Procs : status[p] = StatusRequestTimeout /\ p \notin Range(enqLog)
    /\ \E p \in Procs : status[p] = StatusOK /\ Count(appLog, p) = 1


\* The position of request p among the applied ones, and the result of its
\* own request: the partition of the topology it submitted, or the totals of
\* the state right after its measurement was applied.
AppliedAt(p) == CHOOSE k \in 1..Len(appLog) : appLog[k] = p

OwnResult(p) ==
    IF evt[p].type = "GraphUpdate"
    THEN computeIslands(evt[p].Graph).islands
    ELSE aggregate(Replay(NewGrid, SubSeq(appLog, 1, AppliedAt(p))))

\* C37 One-shot private reply: the event of a request names the reply channel
\* of that request, and no two events name the same one; a value is written
\* to a reply channel only in the step that applies the event of its request,
\* never while it holds a value, and never after one was read from it; the
\* value in the channel, and the value the handler responded with, is the
\* result of its own request.
C37_OneShotReply ==
    /\ [][\A p \in Procs :
            (Len(resp'[p]) > Len(resp[p]))
               => /\ appLog' = Append(appLog, p)
                  /\ p \notin Range(appLog)
                  /\ resp[p] = <<>>
                  /\ status[p] # StatusOK]_vars
    /\ [](\A p \in Procs :
            /\ (pc[p] # "idle") => (evt[p].Reply = p)
            /\ \A k \in 1..Len(events) : \A j \in 1..Len(events) :
                  (events[k].Reply = events[j].Reply) => (k = j)
            /\ IF p \in Range(appLog)
               THEN \/ resp[p] = <<OwnResult(p)>> /\ status[p] # StatusOK
                    \/ resp[p] = <<>> /\ status[p] = StatusOK /\ body[p] = OwnResult(p)
               ELSE resp[p] = <<>> /\ status[p] # StatusOK)

\* Two measurements and a topology update were answered with three different
\* results, and the reply of a fourth request lies unread in its channel.
C37_Witness ==
    /\ \E p \in MeasProcs, q \in MeasProcs, g \in GraphProcs :
          /\ status[p] = StatusOK /\ status[q] = StatusOK /\ status[g] = StatusOK
          /\ body[p] # body[q]
          /\ \E i \in 1..Len(body[p]) : body[p][i].Total # 0
    /\ \E r \in Procs : resp[r] # <<>>


\* ------------------------------------------------------------------------
\* Properties of WrapMiddleware (SpecWrap)

\* The middlewares of a list that are not nil, in the order of the list.
NonNil(ms) == SelectSeq(ms, LAMBDA m : m # Nil)

\* C38: the handler WrapMiddleware returns runs the middlewares that are not
\* nil in the order of the list, the first of the list outermost and first,
\* and the final handler last: what a request has run is at any time a prefix
\* of that order, the whole of it once the final handler has run; a nil
\* middleware adds no layer and leaves the order of the others as it is.
C38_MiddlewareOrder ==
    LET order == NonNil(mw) \o FinalHandler
    IN /\ wrapPc = "loop" =>
             handler = NonNil(SubSeq(mw, wrapI + 1, Len(mw))) \o FinalHandler
       /\ wrapPc \in {"wrapped", "serving", "served", "stopped"} =>
             /\ handler = order
             /\ Len(trace) <= Len(order)
             /\ trace = SubSeq(order, 1, Len(trace))
       /\ wrapPc = "served" =>
             /\ trace = order
             /\ trace[Len(trace)] = FinalHandler[1]
             /\ \A k \in 1..(Len(trace) - 1) : trace[k] \in Middlewares
       /\ wrapPc = "stopped" => trace[Len(trace)] \in Middlewares

\* A request ran through a handler made of three middlewares of which the
\* second is nil: the first, the third, then the final handler.
C38_Witness ==
    /\ wrapPc = "served"
    /\ Len(mw) = 3
    /\ mw[1] # Nil /\ mw[2] = Nil /\ mw[3] # Nil
    /\ mw[1] # mw[3]
    /\ trace = <<mw[1], mw[3], "handler">>

====
